---------------------------- MODULE Spec2Model ----------------------------
(***************************************************************************)
(* PyRQA: the tiled recurrence engine (RowMatBitRec, the RQA carryover     *)
(* engine, and ColumnByte, the recurrence plot engine), the planner that   *)
(* partitions the N x N recurrence matrix into sub matrices, and the       *)
(* scalar Baseline implementations they are tested against.                *)
(*                                                                         *)
(* numpy arrays are functions over 0..len-1.  Series values and the radius *)
(* are small integers.  A numpy uint64 counter is written as the residue   *)
(* of its value modulo 2^64 that lies nearest to zero: a negative entry r  *)
(* stands for the unsigned value 2^64 + r (a counter that wrapped around). *)
(***************************************************************************)
EXTENDS Integers, Sequences, FiniteSets, TLC

\* Bounds of the model.
MaxT == 3
MaxDevices == 2
\* the modulus of the uint64 counters; it stands for 2^64, which is beyond
\* the integers of the checker, and is above every count of the model
Uint64Modulus == 1048576

\* math.pow(2, 16) - 1
max_edge_length == 65535

Values == {0, 1}
Radii == {0, 1, 2}
Dimensions == {1, 2}
Delays == {1, 2}
Theilers == {0, 1, 2}
EdgeLengths == 1 .. MaxT
Metrics == {"taxicab_metric", "euclidean_metric", "maximum_metric"}
Orders == {"Diagonal", "Vertical", "Bulk"}

VARIABLES
    settings,                               \* Settings of the computation
    edge_length, processing_order, devices, \* engine parameters; devices = len(opencl.devices)
    sub_matrix_queues,                      \* one FIFO queue of sub matrices per execution level
    recurrence_points,
    diagonal_frequency_distribution,
    vertical_frequency_distribution,
    white_vertical_frequency_distribution,
    diagonal_length_carryover,
    vertical_length_carryover,
    white_vertical_length_carryover,
    threads_diagonal_frequency_distribution,
    threads_vertical_frequency_distribution,
    threads_white_vertical_frequency_distribution,
    recurrence_matrix,                      \* global matrix of the recurrence plot engine
    main,                                   \* position of the thread that called run()
    worker,                                 \* per device: position in process_sub_matrix and its buffers
    result,                                 \* what run() returned
    history,                                \* bookkeeping of pulls, completions, writes and earlier results
    uint64_cast                             \* what the build makes of a negative float64 stored as uint64

vars == <<settings, edge_length, processing_order, devices, sub_matrix_queues,
          recurrence_points, diagonal_frequency_distribution,
          vertical_frequency_distribution, white_vertical_frequency_distribution,
          diagonal_length_carryover, vertical_length_carryover,
          white_vertical_length_carryover,
          threads_diagonal_frequency_distribution,
          threads_vertical_frequency_distribution,
          threads_white_vertical_frequency_distribution,
          recurrence_matrix, main, worker, result, history, uint64_cast>>

-----------------------------------------------------------------------------
(* Arithmetic helpers *)

fabs(x) == IF x < 0 THEN -x ELSE x

Min2(a, b) == IF a < b THEN a ELSE b

Max2(a, b) == IF a > b THEN a ELSE b

zeros(n) == [i \in 0 .. n - 1 |-> 0]

\* numpy "a += b" on two arrays of one length
array_add(a, b) == [i \in DOMAIN a |-> a[i] + b[i]]

\* numpy "a[length - 1] += 1"
increment(a, length) == [a EXCEPT ![length - 1] = @ + 1]

\* a[start:end_] as an array over 0..end_-start-1
slice(a, start, end_) == [i \in 0 .. end_ - start - 1 |-> a[start + i]]

\* faulty variant: the array keeps its values
write_slice_none(a, start, buf) == a

\* a[start:start+len(buf)] = buf
write_slice(a, start, buf) ==
    [i \in DOMAIN a |->
        IF i - start \in DOMAIN buf THEN buf[i - start] ELSE a[i]]

-----------------------------------------------------------------------------
(* Settings *)

offset(s) == (s.embedding_dimension - 1) * s.time_delay

number_of_vectors(s) == Len(s.time_series) - offset(s)

is_matrix_symmetric(s) == s.metric_is_symmetric

\* time_series[start:start + cnt + offset], a python slice: cut at the end of the series
get_time_series(s, start, cnt) ==
    LET stop == Min2(start + cnt + offset(s), Len(s.time_series))
    IN  [i \in 0 .. stop - start - 1 |-> s.time_series[start + i + 1]]

\* the embedded vectors start..start+cnt-1 as one flat row-major buffer
get_vectors(s, start, cnt) ==
    [k \in 0 .. cnt * s.embedding_dimension - 1 |->
        s.time_series[(start + (k \div s.embedding_dimension))
                      + (k % s.embedding_dimension) * s.time_delay + 1]]

-----------------------------------------------------------------------------
(* Metrics.  A distance is [root |-> b, v |-> n]: n, or the square root of *)
(* n when b holds (the Euclidean metric returns math.sqrt of the sum).     *)

\* np.finfo(np.float32).min, below every absolute difference
float32_min == -2147483647

RECURSIVE sum_to(_, _)
sum_to(f, n) == IF n = 0 THEN 0 ELSE f[n - 1] + sum_to(f, n - 1)

RECURSIVE max_to(_, _, _)
max_to(f, n, seed) ==
    IF n = 0 THEN seed
    ELSE LET before == max_to(f, n - 1, seed)
         IN  IF f[n - 1] > before THEN f[n - 1] ELSE before

measure(metric, diffs, m) ==
    CASE metric = "taxicab_metric" ->
            [root |-> FALSE, v |-> sum_to([i \in 0 .. m - 1 |-> fabs(diffs[i])], m)]
      [] metric = "euclidean_metric" ->
            [root |-> TRUE, v |-> sum_to([i \in 0 .. m - 1 |-> diffs[i] * diffs[i]], m)]
      [] metric = "maximum_metric" ->
            [root |-> FALSE, v |-> max_to([i \in 0 .. m - 1 |-> fabs(diffs[i])], m, float32_min)]

get_distance_time_series(metric, time_series_x, time_series_y, m, tau, index_x, index_y) ==
    measure(metric,
            [idx \in 0 .. m - 1 |->
                time_series_x[index_x + idx * tau] - time_series_y[index_y + idx * tau]],
            m)

get_distance_vectors(metric, vectors_x, vectors_y, m, index_x, index_y) ==
    measure(metric,
            [idx \in 0 .. m - 1 |->
                vectors_x[index_x * m + idx] - vectors_y[index_y * m + idx]],
            m)

\* FixedRadius.contains: distance < radius
contains(radius, distance) ==
    IF distance.root
    THEN radius > 0 /\ distance.v < radius * radius
    ELSE distance.v < radius

\* the whole series as a 0-based array, as the Baseline indexes it
series0(s) == [i \in 0 .. Len(s.time_series) - 1 |-> s.time_series[i + 1]]

-----------------------------------------------------------------------------
(* SubMatrices: the planner *)

SubMatrix(partition_index_x, partition_index_y, dim_x, start_x, dim_y, start_y) ==
    [partition_index_x |-> partition_index_x,
     partition_index_y |-> partition_index_y,
     start_x |-> start_x, start_y |-> start_y,
     dim_x |-> dim_x, dim_y |-> dim_y]

clamped_edge_length_none(e) == e

clamped_edge_length(e) == IF e > max_edge_length THEN max_edge_length ELSE e

\* int(math.ceil(float(number_of_vectors) / edge_length))
number_of_partitions(n, e) == (n + e - 1) \div e

\* faulty variant: Diagonal puts a sub matrix on the queue of its row
queue_index_by_row(order, partition_index_x, partition_index_y) ==
    CASE order = "Diagonal" -> partition_index_y
      [] order = "Vertical" -> partition_index_y
      [] order = "Bulk" -> 0

\* faulty variant: Diagonal puts a sub matrix on the queue of its column
queue_index_by_column(order, partition_index_x, partition_index_y) ==
    CASE order = "Diagonal" -> partition_index_x
      [] order = "Vertical" -> partition_index_y
      [] order = "Bulk" -> 0

\* faulty variant: Vertical puts a sub matrix on the queue of its column
queue_index_vertical_by_column(order, partition_index_x, partition_index_y) ==
    CASE order = "Diagonal" -> partition_index_x + partition_index_y
      [] order = "Vertical" -> partition_index_x
      [] order = "Bulk" -> 0

\* faulty variant: every order puts every sub matrix on the first queue
queue_index_first_queue(order, partition_index_x, partition_index_y) == 0

queue_index(order, partition_index_x, partition_index_y) ==
    CASE order = "Diagonal" -> partition_index_x + partition_index_y
      [] order = "Vertical" -> partition_index_y
      [] order = "Bulk" -> 0

\* faulty variant: every sub matrix starts at column 0 and row 0
planned_sub_matrix_at_origin(n, e, p, px, py) ==
    SubMatrix(px, py,
              IF px = p - 1 THEN n - px * e ELSE e, 0,
              IF py = p - 1 THEN n - py * e ELSE e, 0)

\* one sub matrix of the grid: dim_x, start_x, dim_y, start_y as the loops compute them
planned_sub_matrix(n, e, p, px, py) ==
    SubMatrix(px, py,
              IF px = p - 1 THEN n - px * e ELSE e,
              px * e,
              IF py = p - 1 THEN n - py * e ELSE e,
              py * e)

\* the two nested loops of create_sub_matrices, step k = px * p + py
RECURSIVE create_loop(_, _, _, _, _, _)
create_loop(k, p, n, e, order, queues) ==
    IF k = p * p THEN queues
    ELSE LET px == k \div p
             py == k % p
             qi == queue_index(order, px, py)
             grown == IF Len(queues) <= qi THEN Append(queues, <<>>) ELSE queues
         IN  create_loop(k + 1, p, n, e, order,
                         [grown EXCEPT ![qi + 1] =
                             Append(@, planned_sub_matrix(n, e, p, px, py))])

create_sub_matrices(s, e, order) ==
    create_loop(0, number_of_partitions(number_of_vectors(s), clamped_edge_length(e)),
                number_of_vectors(s), clamped_edge_length(e), order, <<>>)

-----------------------------------------------------------------------------
(* RQASubMatricesCarryover: the slices of the global arrays a sub matrix uses *)

\* <<start, end>> of the slice of recurrence_points
get_recurrence_points(sm) == <<sm.start_x, sm.start_x + sm.dim_x>>

\* <<start, end>> of the slice of the vertical and white vertical length carryover
\* faulty variant: the slice of the first columns, whatever the sub matrix
get_vertical_length_carryover_first(sm) == <<0, sm.dim_x>>

get_vertical_length_carryover(sm) == <<sm.start_x, sm.start_x + sm.dim_x>>

\* faulty variant: the slice of the first columns, whatever the sub matrix
get_white_vertical_length_carryover_first(sm) == <<0, sm.dim_x>>

get_white_vertical_length_carryover(sm) == <<sm.start_x, sm.start_x + sm.dim_x>>

\* faulty variant: below the main diagonal the slice starts at the distance of
\* the partition starts
get_diagonal_length_carryover_lower_start(s, sm) ==
    IF is_matrix_symmetric(s)
    THEN LET carryover_start ==
                 IF sm.partition_index_x < sm.partition_index_y
                 THEN sm.start_y - sm.start_x
                 ELSE sm.start_x - sm.start_y
         IN  <<carryover_start, carryover_start + sm.dim_x>>
    ELSE LET carryover_start ==
                 (number_of_vectors(s) - 1) + (sm.start_x - sm.dim_y + 1) - sm.start_y
         IN  <<carryover_start, carryover_start + (sm.dim_x + sm.dim_y - 1)>>

\* faulty variant: the slots of a matrix that is not symmetric are not
\* shifted by N - 1
get_diagonal_length_carryover_unshifted(s, sm) ==
    IF is_matrix_symmetric(s)
    THEN LET carryover_start ==
                 IF sm.partition_index_x < sm.partition_index_y
                 THEN sm.start_y - (sm.start_x + sm.dim_x)
                 ELSE sm.start_x - sm.start_y
         IN  <<carryover_start, carryover_start + sm.dim_x>>
    ELSE LET carryover_start == (sm.start_x - sm.dim_y + 1) - sm.start_y
         IN  <<carryover_start, carryover_start + (sm.dim_x + sm.dim_y - 1)>>

\* <<start, end>> of the slice of the diagonal length carryover
get_diagonal_length_carryover(s, sm) ==
    IF is_matrix_symmetric(s)
    THEN LET carryover_start ==
                 IF sm.partition_index_x < sm.partition_index_y
                 THEN sm.start_y - (sm.start_x + sm.dim_x)
                 ELSE sm.start_x - sm.start_y
         IN  <<carryover_start, carryover_start + sm.dim_x>>
    ELSE LET carryover_start ==
                 (number_of_vectors(s) - 1) + (sm.start_x - sm.dim_y + 1) - sm.start_y
         IN  <<carryover_start, carryover_start + (sm.dim_x + sm.dim_y - 1)>>

\* faulty variant: a sub matrix below the main diagonal is treated like one above
get_diagonal_offset_none(sm) == 0

get_diagonal_offset(sm) ==
    IF sm.partition_index_x < sm.partition_index_y THEN 1 ELSE 0

diagonal_carryover_size(s) ==
    IF is_matrix_symmetric(s) THEN number_of_vectors(s)
    ELSE number_of_vectors(s) * 2 - 1

\* faulty variant: the runs still open after the last sub matrix are dropped
close_open_runs_none(distribution, carryover, n) == distribution

\* one "for line_length in carryover[carryover > 0]: distribution[line_length - 1] += 1"
RECURSIVE close_open_runs(_, _, _)
close_open_runs(distribution, carryover, n) ==
    IF n = 0 THEN distribution
    ELSE LET before == close_open_runs(distribution, carryover, n - 1)
         IN  IF carryover[n - 1] > 0 THEN increment(before, carryover[n - 1])
             ELSE before

\* Carryover.__initialise: white_vertical_index_carryover; RowMatBitRec
\* hands it to no sub matrix, so that it keeps these entries
white_vertical_index_carryover(s) == zeros(number_of_vectors(s))

\* post_process_white_vertical_index_carryover, for the first n columns: a
\* method of the carryover engine that RowMatBitRec.run does not call
RECURSIVE post_process_white_vertical_index_carryover(_, _, _, _)
post_process_white_vertical_index_carryover(s, distribution, carryover, n) ==
    IF n = 0 THEN distribution
    ELSE LET before == post_process_white_vertical_index_carryover(s, distribution,
                                                                   carryover, n - 1)
             line_length == number_of_vectors(s) - carryover[n - 1] - 1
         IN  IF line_length > 0 THEN increment(before, line_length) ELSE before

\* faulty variant: the main diagonal stays counted twice
extent_without_correction(s, distribution) ==
    IF is_matrix_symmetric(s) THEN array_add(distribution, distribution)
    ELSE distribution

\* the outcomes of storing a negative float64 in a uint64 array: the C cast
\* is undefined, the build wraps (to the largest uint64) or saturates at 0
Uint64Casts == {"wraps", "saturates"}

\* faulty variant: nothing is subtracted
uint64_decrement_none(x) == x

\* "array[-1] -= 1" on a uint64 array: the element minus the Python integer
\* is a float64, which is stored back as uint64
uint64_decrement(x) ==
    IF x - 1 >= 0 THEN x - 1
    ELSE IF uint64_cast = "wraps" THEN (x - 1) % Uint64Modulus ELSE 0

\* RQA.extent_diagonal_frequency_distribution
extent_diagonal_frequency_distribution(s, distribution) ==
    IF is_matrix_symmetric(s)
    THEN LET doubled == array_add(distribution, distribution)
             last == number_of_vectors(s) - 1
         IN  IF s.theiler_corrector = 0
             THEN [doubled EXCEPT ![last] = uint64_decrement(@)]
             ELSE doubled
    ELSE distribution

-----------------------------------------------------------------------------
(* The device kernels of RowMatBitRec: 'vertical' materialises the bits of *)
(* the sub matrix and aggregates the columns, 'diagonal_symmetric' and     *)
(* 'diagonal' aggregate the diagonals.                                     *)

\* M_T[i][j] for column i and row j of the sub matrix
materialise(metric, vectors_x, vectors_y, sm, m, radius) ==
    [i \in 0 .. sm.dim_x - 1 |->
        [j \in 0 .. sm.dim_y - 1 |->
            contains(radius, get_distance_vectors(metric, vectors_x, vectors_y, m, i, j))]]

\* cell k = i * dim_y + j of the column-by-column walk; b holds the buffers
RECURSIVE vertical_walk(_, _, _, _)
vertical_walk(matrix, sm, k, b) ==
    IF k = sm.dim_x * sm.dim_y THEN b
    ELSE LET i == k \div sm.dim_y
             j == k % sm.dim_y
         IN  IF matrix[i][j]
             THEN vertical_walk(matrix, sm, k + 1,
                      [b EXCEPT !.recurrence_points[i] = @ + 1,
                                !.white_vertical_frequency_distribution =
                                    IF b.white_vertical_carryover[i] > 0
                                    THEN increment(@, b.white_vertical_carryover[i])
                                    ELSE @,
                                !.white_vertical_carryover[i] = 0,
                                !.vertical_carryover[i] = @ + 1])
             ELSE vertical_walk(matrix, sm, k + 1,
                      [b EXCEPT !.vertical_frequency_distribution =
                                    IF b.vertical_carryover[i] > 0
                                    THEN increment(@, b.vertical_carryover[i])
                                    ELSE @,
                                !.vertical_carryover[i] = 0,
                                !.white_vertical_carryover[i] = @ + 1])

vertical_kernel(matrix, sm, b) == vertical_walk(matrix, sm, 0, b)

\* local x - y of the diagonal that carryover slot `id` of the slice belongs to
symmetric_delta(sm, id, diagonal_offset) ==
    IF diagonal_offset = 1 THEN (sm.dim_x - 1 - id) + diagonal_offset ELSE id

asymmetric_delta(sm, id) == id - (sm.dim_y - 1)

\* the cells <<x, y>> of the sub matrix with x - y = delta, in walking order
diagonal_cells(sm, delta) ==
    LET first == Max2(delta, 0)
        last == Min2(sm.dim_x - 1, sm.dim_y - 1 + delta)
    IN  [c \in 1 .. Max2(last - first + 1, 0) |-> <<first + c - 1, first + c - 1 - delta>>]

\* walk one diagonal: acc = [buffer |-> open run, distribution |-> ...]
RECURSIVE diagonal_walk(_, _, _, _, _, _)
diagonal_walk(matrix, sm, w, cells, c, acc) ==
    IF c > Len(cells) THEN acc
    ELSE LET x == cells[c][1]
             y == cells[c][2]
         IN  IF matrix[x][y] /\ fabs((sm.start_x + x) - (sm.start_y + y)) >= w
             THEN diagonal_walk(matrix, sm, w, cells, c + 1,
                                [acc EXCEPT !.buffer = @ + 1])
             ELSE diagonal_walk(matrix, sm, w, cells, c + 1,
                                [buffer |-> 0,
                                 distribution |->
                                     IF acc.buffer > 0
                                     THEN increment(acc.distribution, acc.buffer)
                                     ELSE acc.distribution])

\* all slots 0..slots-1 of the slice; symmetric tells which kernel runs
RECURSIVE diagonal_slots(_, _, _, _, _, _, _)
diagonal_slots(matrix, sm, w, symmetric, diagonal_offset, id, b) ==
    IF id = (IF symmetric THEN sm.dim_x ELSE sm.dim_x + sm.dim_y - 1)
    THEN b
    ELSE LET delta == IF symmetric THEN symmetric_delta(sm, id, diagonal_offset)
                      ELSE asymmetric_delta(sm, id)
             acc == diagonal_walk(matrix, sm, w, diagonal_cells(sm, delta), 1,
                                  [buffer |-> b.diagonal_carryover[id],
                                   distribution |-> b.diagonal_frequency_distribution])
         IN  diagonal_slots(matrix, sm, w, symmetric, diagonal_offset, id + 1,
                            [b EXCEPT !.diagonal_carryover[id] = acc.buffer,
                                      !.diagonal_frequency_distribution = acc.distribution])

diagonal_kernel(matrix, sm, w, symmetric, diagonal_offset, b) ==
    diagonal_slots(matrix, sm, w, symmetric, diagonal_offset, 0, b)

-----------------------------------------------------------------------------
(* rqa/fixed_radius/plain/baseline.py: the scalar Baseline *)

RQAResult(points, diagonal, vertical, white) ==
    [recurrence_points |-> points,
     diagonal_frequency_distribution |-> diagonal,
     vertical_frequency_distribution |-> vertical,
     white_vertical_frequency_distribution |-> white]

\* step k = index_x * N + index_y of the two nested loops of Baseline.run
RECURSIVE baseline_loop(_, _, _)
baseline_loop(s, k, b) ==
    LET n == number_of_vectors(s) IN
    IF k = n * n THEN b
    ELSE LET index_x == k \div n
             index_y == k % n
             vertical_index == index_x
             diagonal_index == n - 1 + (index_y - index_x)
             distance == get_distance_time_series(s.similarity_measure,
                             series0(s), series0(s),
                             s.embedding_dimension, s.time_delay, index_x, index_y)
         IN  IF contains(s.radius, distance)
             THEN baseline_loop(s, k + 1,
                    [b EXCEPT !.recurrence_points[vertical_index] = @ + 1,
                              !.diagonal_length_carryover[diagonal_index] =
                                  IF fabs(index_y - index_x) >= s.theiler_corrector
                                  THEN @ + 1 ELSE @,
                              !.vertical_length_carryover[vertical_index] = @ + 1,
                              !.white_vertical_frequency_distribution =
                                  IF b.white_vertical_length_carryover[vertical_index] > 0
                                  THEN increment(@, b.white_vertical_length_carryover[vertical_index])
                                  ELSE @,
                              !.white_vertical_length_carryover[vertical_index] = 0])
             ELSE baseline_loop(s, k + 1,
                    [b EXCEPT !.diagonal_frequency_distribution =
                                  IF b.diagonal_length_carryover[diagonal_index] > 0
                                  THEN increment(@, b.diagonal_length_carryover[diagonal_index])
                                  ELSE @,
                              !.diagonal_length_carryover[diagonal_index] = 0,
                              !.vertical_frequency_distribution =
                                  IF b.vertical_length_carryover[vertical_index] > 0
                                  THEN increment(@, b.vertical_length_carryover[vertical_index])
                                  ELSE @,
                              !.vertical_length_carryover[vertical_index] = 0,
                              !.white_vertical_length_carryover[vertical_index] = @ + 1])

baseline_run(s) ==
    LET n == number_of_vectors(s)
        b == baseline_loop(s, 0,
                [recurrence_points |-> zeros(n),
                 diagonal_frequency_distribution |-> zeros(n),
                 vertical_frequency_distribution |-> zeros(n),
                 white_vertical_frequency_distribution |-> zeros(n),
                 diagonal_length_carryover |-> zeros(n * 2 - 1),
                 vertical_length_carryover |-> zeros(n),
                 white_vertical_length_carryover |-> zeros(n)])
    IN  RQAResult(b.recurrence_points,
                  close_open_runs(b.diagonal_frequency_distribution,
                                  b.diagonal_length_carryover, n * 2 - 1),
                  close_open_runs(b.vertical_frequency_distribution,
                                  b.vertical_length_carryover, n),
                  close_open_runs(b.white_vertical_frequency_distribution,
                                  b.white_vertical_length_carryover, n))

-----------------------------------------------------------------------------
(* RowMatBitRec: state after construction *)

MaxRuns == 2

Devices == 1 .. devices

NoSubMatrix == SubMatrix(-1, -1, 0, 0, 0, 0)

NoResult == [kind |-> "none"]

\* run() printed 'No device specified!' and returned 0
ZeroResult == [kind |-> "zero"]

\* queue: the index of the queue the worker was started on (kwargs['sub_matrix_queue'])
IdleWorker ==
    [pc |-> "idle", queue |-> 0, sub_matrix |-> NoSubMatrix, matrix |-> <<>>,
     buffers |-> <<>>]

tile_id(sm) == <<sm.partition_index_x, sm.partition_index_y>>

\* every sub matrix of the queues
RECURSIVE queued(_, _)
queued(queues, n) ==
    IF n = 0 THEN {}
    ELSE queued(queues, n - 1) \cup {queues[n][i] : i \in 1 .. Len(queues[n])}

all_sub_matrices(queues) == queued(queues, Len(queues))

NoHistory(queues) ==
    [runs |-> 0,
     previous |-> NoResult,
     planned |-> queues,
     pulled |-> [id \in {tile_id(sm) : sm \in all_sub_matrices(queues)} |-> 0],
     completed |-> [id \in {tile_id(sm) : sm \in all_sub_matrices(queues)} |-> 0],
     holding |-> [d \in Devices |-> {}],
     failed |-> {}]

ValidSettings ==
    {s \in [time_series : UNION {[1 .. t -> Values] : t \in 1 .. MaxT},
            embedding_dimension : Dimensions,
            time_delay : Delays,
            similarity_measure : Metrics,
            radius : Radii,
            theiler_corrector : Theilers,
            metric_is_symmetric : BOOLEAN] :
        /\ number_of_vectors(s) >= 1
        /\ s.time_series[1] = 0
        /\ (s.embedding_dimension = 1 => s.time_delay = 1)
        /\ (~ s.metric_is_symmetric => s.similarity_measure = "taxicab_metric")}

\* Carryover.__initialise, RQA.__initialise and RowMatBitRec.__initialise
InitialArrays(s, n_devices) ==
    LET n == number_of_vectors(s) IN
    /\ recurrence_points = zeros(n)
    /\ diagonal_frequency_distribution = zeros(n)
    /\ vertical_frequency_distribution = zeros(n)
    /\ white_vertical_frequency_distribution = zeros(n)
    /\ diagonal_length_carryover = zeros(diagonal_carryover_size(s))
    /\ vertical_length_carryover = zeros(n)
    /\ white_vertical_length_carryover = zeros(n)
    /\ threads_diagonal_frequency_distribution = [d \in 1 .. n_devices |-> zeros(n)]
    /\ threads_vertical_frequency_distribution = [d \in 1 .. n_devices |-> zeros(n)]
    /\ threads_white_vertical_frequency_distribution = [d \in 1 .. n_devices |-> zeros(n)]

\* The inputs of the runs with several devices or another order than Diagonal
NarrowSettings(s) ==
    /\ s.embedding_dimension = 1
    /\ s.similarity_measure = "taxicab_metric"
    /\ s.radius = 1
    /\ s.theiler_corrector \in {0, 1}

\* the only subtraction below zero: a symmetric matrix without recurrent main
\* diagonal and Theiler corrector 0; elsewhere the builds do not differ
CastMatters(s) ==
    s.radius = 0 /\ s.theiler_corrector = 0 /\ is_matrix_symmetric(s)

Init ==
    /\ settings \in ValidSettings
    /\ processing_order \in Orders
    /\ devices \in 0 .. MaxDevices
    /\ \/ devices = 1 /\ processing_order = "Diagonal"
       \/ /\ NarrowSettings(settings)
          /\ (devices > 1 /\ processing_order # "Diagonal")
                 => number_of_vectors(settings) < MaxT
    /\ \E e \in EdgeLengths :
          /\ edge_length = clamped_edge_length(e)
          /\ sub_matrix_queues = create_sub_matrices(settings, e, processing_order)
    /\ InitialArrays(settings, devices)
    /\ recurrence_matrix = <<>>
    /\ main = [pc |-> "constructed", level |-> 0]
    /\ worker = [d \in Devices |-> IdleWorker]
    /\ result = NoResult
    /\ history = NoHistory(sub_matrix_queues)
    /\ uint64_cast \in Uint64Casts
    /\ uint64_cast = "saturates" => CastMatters(settings)

-----------------------------------------------------------------------------
(* RowMatBitRec.run *)

\* RQA.reset
RQA_reset ==
    /\ recurrence_points' = zeros(number_of_vectors(settings))
    /\ diagonal_frequency_distribution' = zeros(number_of_vectors(settings))
    /\ vertical_frequency_distribution' = zeros(number_of_vectors(settings))
    /\ white_vertical_frequency_distribution' = zeros(number_of_vectors(settings))

\* SubMatrices.reset
SubMatrices_reset ==
    /\ edge_length' = clamped_edge_length(edge_length)
    /\ sub_matrix_queues' = create_sub_matrices(settings, edge_length, processing_order)

\* faulty variant: the carryover arrays keep the values of the previous run
Carryover_reset_skipped ==
    UNCHANGED <<diagonal_length_carryover, vertical_length_carryover,
                white_vertical_length_carryover>>

\* Carryover.reset
Carryover_reset ==
    /\ diagonal_length_carryover' = zeros(diagonal_carryover_size(settings))
    /\ vertical_length_carryover' = zeros(number_of_vectors(settings))
    /\ white_vertical_length_carryover' = zeros(number_of_vectors(settings))

\* RowMatBitRec.__initialise: the accumulators of the device threads
threads_initialise ==
    /\ threads_diagonal_frequency_distribution' =
           [d \in Devices |-> zeros(number_of_vectors(settings))]
    /\ threads_vertical_frequency_distribution' =
           [d \in Devices |-> zeros(number_of_vectors(settings))]
    /\ threads_white_vertical_frequency_distribution' =
           [d \in Devices |-> zeros(number_of_vectors(settings))]

\* self.reset(), then the dispatch on len(self.opencl.devices)
run ==
    /\ main.pc \in {"constructed", "done"}
    /\ history.runs < MaxRuns
    /\ RQA_reset
    /\ SubMatrices_reset
    /\ Carryover_reset
    /\ threads_initialise
    /\ worker' = [d \in Devices |-> IdleWorker]
    /\ IF devices = 0
       THEN /\ main' = [pc |-> "done", level |-> 0]
            /\ result' = ZeroResult
       ELSE /\ main' = [pc |-> IF Len(sub_matrix_queues') = 0
                               THEN "post_process_length_carryovers"
                               ELSE "level",
                        level |-> 1]
            /\ result' = NoResult
    /\ history' = [NoHistory(sub_matrix_queues') EXCEPT
                       !.runs = history.runs + 1,
                       !.previous = result]
    /\ UNCHANGED <<settings, uint64_cast, processing_order, devices, recurrence_matrix>>

\* run_single_device calls process_sub_matrix on the queue of the level;
\* run_multiple_devices starts one thread per device on it
start_level ==
    /\ main.pc = "level"
    /\ worker' = [d \in Devices |->
                      IF worker[d].pc = "idle"
                      THEN [worker[d] EXCEPT !.pc = "get", !.queue = main.level]
                      ELSE worker[d]]
    /\ main' = [main EXCEPT !.pc = "join"]
    /\ UNCHANGED <<settings, uint64_cast, edge_length, processing_order, devices, sub_matrix_queues,
                   recurrence_points, diagonal_frequency_distribution,
                   vertical_frequency_distribution, white_vertical_frequency_distribution,
                   diagonal_length_carryover, vertical_length_carryover,
                   white_vertical_length_carryover,
                   threads_diagonal_frequency_distribution,
                   threads_vertical_frequency_distribution,
                   threads_white_vertical_frequency_distribution,
                   recurrence_matrix, result, history>>

\* faulty variant: one finished thread is enough to go on
level_joined_any == \E d \in Devices : worker[d].pc = "exit"

\* faulty variant: the join waits for workers that are idle, which a started
\* worker is only after the join
level_joined_idle == \A d \in Devices : worker[d].pc = "idle"

\* the call has returned / every thread is joined: on to the next queue
level_joined == \A d \in Devices : worker[d].pc = "exit"

\* after: where run() goes on when the last queue is drained
join(after) ==
    /\ main.pc = "join"
    /\ level_joined
    /\ worker' = [d \in Devices |->
                      IF worker[d].pc = "exit" THEN IdleWorker ELSE worker[d]]
    /\ main' = IF main.level = Len(sub_matrix_queues)
               THEN [main EXCEPT !.pc = after]
               ELSE [pc |-> "level", level |-> main.level + 1]
    /\ UNCHANGED <<settings, uint64_cast, edge_length, processing_order, devices, sub_matrix_queues,
                   recurrence_points, diagonal_frequency_distribution,
                   vertical_frequency_distribution, white_vertical_frequency_distribution,
                   diagonal_length_carryover, vertical_length_carryover,
                   white_vertical_length_carryover,
                   threads_diagonal_frequency_distribution,
                   threads_vertical_frequency_distribution,
                   threads_white_vertical_frequency_distribution,
                   recurrence_matrix, result, history>>

join_level == join("post_process_length_carryovers")

-----------------------------------------------------------------------------
(* RowMatBitRec.process_sub_matrix, one loop iteration in six steps *)

current_queue(d) == sub_matrix_queues[worker[d].queue]

\* faulty variant: the sub matrix stays on the queue
queue_get_peek(queue) == [sub_matrix |-> Head(queue), rest |-> queue]

\* faulty variant: the queue hands out the sub matrix that was put last
queue_get_last(queue) ==
    [sub_matrix |-> queue[Len(queue)], rest |-> SubSeq(queue, 1, Len(queue) - 1)]

\* sub_matrix_queue.get(False) on a queue that holds a sub matrix
queue_get(queue) == [sub_matrix |-> Head(queue), rest |-> Tail(queue)]

pull(d) ==
    /\ worker[d].pc = "get"
    /\ Len(current_queue(d)) > 0
    /\ LET got == queue_get(current_queue(d)) IN
       /\ sub_matrix_queues' = [sub_matrix_queues EXCEPT ![worker[d].queue] = got.rest]
       /\ worker' = [worker EXCEPT ![d].pc = "transfer_to_device",
                                   ![d].sub_matrix = got.sub_matrix]
       /\ history' = [history EXCEPT !.pulled[tile_id(got.sub_matrix)] = @ + 1,
                                     !.holding[d] = @ \cup {tile_id(got.sub_matrix)}]
    /\ UNCHANGED <<settings, uint64_cast, edge_length, processing_order, devices,
                   recurrence_points, diagonal_frequency_distribution,
                   vertical_frequency_distribution, white_vertical_frequency_distribution,
                   diagonal_length_carryover, vertical_length_carryover,
                   white_vertical_length_carryover,
                   threads_diagonal_frequency_distribution,
                   threads_vertical_frequency_distribution,
                   threads_white_vertical_frequency_distribution,
                   recurrence_matrix, main, result>>

\* except Queue.Empty: break
queue_empty(d) ==
    /\ worker[d].pc = "get"
    /\ Len(current_queue(d)) = 0
    /\ worker' = [worker EXCEPT ![d].pc = "exit"]
    /\ UNCHANGED <<settings, uint64_cast, edge_length, processing_order, devices, sub_matrix_queues,
                   recurrence_points, diagonal_frequency_distribution,
                   vertical_frequency_distribution, white_vertical_frequency_distribution,
                   diagonal_length_carryover, vertical_length_carryover,
                   white_vertical_length_carryover,
                   threads_diagonal_frequency_distribution,
                   threads_vertical_frequency_distribution,
                   threads_white_vertical_frequency_distribution,
                   recurrence_matrix, main, result, history>>

\* the global arrays the sub matrices share
global_arrays ==
    [recurrence_points |-> recurrence_points,
     vertical_length_carryover |-> vertical_length_carryover,
     white_vertical_length_carryover |-> white_vertical_length_carryover,
     diagonal_length_carryover |-> diagonal_length_carryover]

\* the buffers written to the device up to the first command_queue.finish(),
\* read from the global arrays g
device_buffers(s, g, sm) ==
    LET n == number_of_vectors(s)
        points == get_recurrence_points(sm)
        vertical == get_vertical_length_carryover(sm)
        white == get_white_vertical_length_carryover(sm)
        diagonal == get_diagonal_length_carryover(s, sm)
    IN  [vectors_x |-> get_vectors(s, sm.start_x, sm.dim_x),
         vectors_y |-> get_vectors(s, sm.start_y, sm.dim_y),
         recurrence_points |-> slice(g.recurrence_points, points[1], points[2]),
         vertical_frequency_distribution |-> zeros(n),
         white_vertical_frequency_distribution |-> zeros(n),
         diagonal_frequency_distribution |-> zeros(n),
         vertical_carryover |->
             slice(g.vertical_length_carryover, vertical[1], vertical[2]),
         white_vertical_carryover |->
             slice(g.white_vertical_length_carryover, white[1], white[2]),
         diagonal_carryover |->
             slice(g.diagonal_length_carryover, diagonal[1], diagonal[2])]

\* faulty variant: nothing is read back from the device
read_back_none(s, g, sm, b) == g

\* the global arrays g after the buffers b of sub matrix sm are read back into them
read_back(s, g, sm, b) ==
    [recurrence_points |->
         write_slice(g.recurrence_points, get_recurrence_points(sm)[1],
                     b.recurrence_points),
     vertical_length_carryover |->
         write_slice(g.vertical_length_carryover,
                     get_vertical_length_carryover(sm)[1], b.vertical_carryover),
     white_vertical_length_carryover |->
         write_slice(g.white_vertical_length_carryover,
                     get_white_vertical_length_carryover(sm)[1],
                     b.white_vertical_carryover),
     diagonal_length_carryover |->
         write_slice(g.diagonal_length_carryover,
                     get_diagonal_length_carryover(s, sm)[1], b.diagonal_carryover)]

transfer_to_device(d) ==
    /\ worker[d].pc = "transfer_to_device"
    /\ worker' = [worker EXCEPT ![d].pc = "vertical",
                                ![d].buffers = device_buffers(settings, global_arrays,
                                                              worker[d].sub_matrix)]
    /\ UNCHANGED <<settings, uint64_cast, edge_length, processing_order, devices, sub_matrix_queues,
                   recurrence_points, diagonal_frequency_distribution,
                   vertical_frequency_distribution, white_vertical_frequency_distribution,
                   diagonal_length_carryover, vertical_length_carryover,
                   white_vertical_length_carryover,
                   threads_diagonal_frequency_distribution,
                   threads_vertical_frequency_distribution,
                   threads_white_vertical_frequency_distribution,
                   recurrence_matrix, main, result, history>>

\* the clear_buffer kernel and the vertical kernel
detect_vertical_lines(d) ==
    /\ worker[d].pc = "vertical"
    /\ LET sm == worker[d].sub_matrix
           b == worker[d].buffers
           matrix == materialise(settings.similarity_measure, b.vectors_x, b.vectors_y,
                                 sm, settings.embedding_dimension, settings.radius)
       IN  worker' = [worker EXCEPT ![d].pc = "diagonal",
                                    ![d].matrix = matrix,
                                    ![d].buffers = vertical_kernel(matrix, sm, b)]
    /\ UNCHANGED <<settings, uint64_cast, edge_length, processing_order, devices, sub_matrix_queues,
                   recurrence_points, diagonal_frequency_distribution,
                   vertical_frequency_distribution, white_vertical_frequency_distribution,
                   diagonal_length_carryover, vertical_length_carryover,
                   white_vertical_length_carryover,
                   threads_diagonal_frequency_distribution,
                   threads_vertical_frequency_distribution,
                   threads_white_vertical_frequency_distribution,
                   recurrence_matrix, main, result, history>>

\* the diagonal kernel, diagonal_symmetric or diagonal by settings.diagonal_kernel_name
detect_diagonal_lines(d) ==
    /\ worker[d].pc = "diagonal"
    /\ LET sm == worker[d].sub_matrix IN
       worker' = [worker EXCEPT
                     ![d].pc = "transfer_from_device",
                     ![d].buffers = diagonal_kernel(worker[d].matrix, sm,
                                        settings.theiler_corrector,
                                        is_matrix_symmetric(settings),
                                        get_diagonal_offset(sm),
                                        worker[d].buffers)]
    /\ UNCHANGED <<settings, uint64_cast, edge_length, processing_order, devices, sub_matrix_queues,
                   recurrence_points, diagonal_frequency_distribution,
                   vertical_frequency_distribution, white_vertical_frequency_distribution,
                   diagonal_length_carryover, vertical_length_carryover,
                   white_vertical_length_carryover,
                   threads_diagonal_frequency_distribution,
                   threads_vertical_frequency_distribution,
                   threads_white_vertical_frequency_distribution,
                   recurrence_matrix, main, result, history>>

\* the enqueue_read_buffer calls into the slices of the global arrays
transfer_from_device(d) ==
    /\ worker[d].pc = "transfer_from_device"
    /\ LET g == read_back(settings, global_arrays, worker[d].sub_matrix,
                          worker[d].buffers)
       IN  /\ recurrence_points' = g.recurrence_points
           /\ vertical_length_carryover' = g.vertical_length_carryover
           /\ white_vertical_length_carryover' = g.white_vertical_length_carryover
           /\ diagonal_length_carryover' = g.diagonal_length_carryover
    /\ worker' = [worker EXCEPT ![d].pc = "update"]
    /\ UNCHANGED <<settings, uint64_cast, edge_length, processing_order, devices, sub_matrix_queues,
                   diagonal_frequency_distribution,
                   vertical_frequency_distribution, white_vertical_frequency_distribution,
                   threads_diagonal_frequency_distribution,
                   threads_vertical_frequency_distribution,
                   threads_white_vertical_frequency_distribution,
                   recurrence_matrix, main, result, history>>

\* "Update frequency distributions" and the runtimes: the end of the iteration
update_frequency_distributions(d) ==
    /\ worker[d].pc = "update"
    /\ LET b == worker[d].buffers IN
       /\ threads_vertical_frequency_distribution' =
              [threads_vertical_frequency_distribution EXCEPT
                  ![d] = array_add(@, b.vertical_frequency_distribution)]
       /\ threads_white_vertical_frequency_distribution' =
              [threads_white_vertical_frequency_distribution EXCEPT
                  ![d] = array_add(@, b.white_vertical_frequency_distribution)]
       /\ threads_diagonal_frequency_distribution' =
              [threads_diagonal_frequency_distribution EXCEPT
                  ![d] = array_add(@, b.diagonal_frequency_distribution)]
    /\ history' = [history EXCEPT
                      !.completed[tile_id(worker[d].sub_matrix)] = @ + 1,
                      !.holding[d] = @ \ {tile_id(worker[d].sub_matrix)}]
    /\ worker' = [worker EXCEPT ![d] = [IdleWorker EXCEPT !.pc = "get",
                                                          !.queue = worker[d].queue]]
    /\ UNCHANGED <<settings, uint64_cast, edge_length, processing_order, devices, sub_matrix_queues,
                   recurrence_points, diagonal_frequency_distribution,
                   vertical_frequency_distribution, white_vertical_frequency_distribution,
                   diagonal_length_carryover, vertical_length_carryover,
                   white_vertical_length_carryover,
                   recurrence_matrix, main, result>>

-----------------------------------------------------------------------------
(* RowMatBitRec.run after the queues are drained *)

post_process_length_carryovers ==
    /\ main.pc = "post_process_length_carryovers"
    /\ diagonal_frequency_distribution' =
           close_open_runs(diagonal_frequency_distribution, diagonal_length_carryover,
                           diagonal_carryover_size(settings))
    /\ vertical_frequency_distribution' =
           close_open_runs(vertical_frequency_distribution, vertical_length_carryover,
                           number_of_vectors(settings))
    /\ white_vertical_frequency_distribution' =
           close_open_runs(white_vertical_frequency_distribution,
                           white_vertical_length_carryover, number_of_vectors(settings))
    /\ main' = [main EXCEPT !.pc = "merge"]
    /\ UNCHANGED <<settings, uint64_cast, edge_length, processing_order, devices, sub_matrix_queues,
                   recurrence_points,
                   diagonal_length_carryover, vertical_length_carryover,
                   white_vertical_length_carryover,
                   threads_diagonal_frequency_distribution,
                   threads_vertical_frequency_distribution,
                   threads_white_vertical_frequency_distribution,
                   recurrence_matrix, worker, result, history>>

\* faulty variant: the accumulators of the last worker replace the total
merged_overwrite(total, threads, n) == IF n = 0 THEN total ELSE threads[n]

\* sum of the arrays threads[1], ..., threads[n] and the array total
RECURSIVE merged(_, _, _)
merged(total, threads, n) ==
    IF n = 0 THEN total ELSE array_add(merged(total, threads, n - 1), threads[n])

\* "for device in self.opencl.devices: ... += self.threads_...[device]"
merge_threads ==
    /\ main.pc = "merge"
    /\ diagonal_frequency_distribution' =
           merged(diagonal_frequency_distribution,
                  threads_diagonal_frequency_distribution, devices)
    /\ vertical_frequency_distribution' =
           merged(vertical_frequency_distribution,
                  threads_vertical_frequency_distribution, devices)
    /\ white_vertical_frequency_distribution' =
           merged(white_vertical_frequency_distribution,
                  threads_white_vertical_frequency_distribution, devices)
    /\ main' = [main EXCEPT !.pc = "extent"]
    /\ UNCHANGED <<settings, uint64_cast, edge_length, processing_order, devices, sub_matrix_queues,
                   recurrence_points,
                   diagonal_length_carryover, vertical_length_carryover,
                   white_vertical_length_carryover,
                   threads_diagonal_frequency_distribution,
                   threads_vertical_frequency_distribution,
                   threads_white_vertical_frequency_distribution,
                   recurrence_matrix, worker, result, history>>

\* "if self.settings.is_matrix_symmetric: self.extent_diagonal_frequency_distribution()"
\* up to "self.diagonal_frequency_distribution += self.diagonal_frequency_distribution"
extent ==
    /\ main.pc = "extent"
    /\ diagonal_frequency_distribution' =
           IF is_matrix_symmetric(settings)
           THEN array_add(diagonal_frequency_distribution, diagonal_frequency_distribution)
           ELSE diagonal_frequency_distribution
    /\ main' = [main EXCEPT !.pc = IF is_matrix_symmetric(settings)
                                   THEN "extent_main_diagonal" ELSE "result"]
    /\ UNCHANGED <<settings, uint64_cast, edge_length, processing_order, devices, sub_matrix_queues,
                   recurrence_points,
                   vertical_frequency_distribution, white_vertical_frequency_distribution,
                   diagonal_length_carryover, vertical_length_carryover,
                   white_vertical_length_carryover,
                   threads_diagonal_frequency_distribution,
                   threads_vertical_frequency_distribution,
                   threads_white_vertical_frequency_distribution,
                   recurrence_matrix, worker, result, history>>

\* "if not self.settings.theiler_corrector:
\*      self.diagonal_frequency_distribution[-1] -= 1"
extent_main_diagonal ==
    /\ main.pc = "extent_main_diagonal"
    /\ diagonal_frequency_distribution' =
           IF settings.theiler_corrector = 0
           THEN [diagonal_frequency_distribution
                    EXCEPT ![number_of_vectors(settings) - 1] = uint64_decrement(@)]
           ELSE diagonal_frequency_distribution
    /\ main' = [main EXCEPT !.pc = "result"]
    /\ UNCHANGED <<settings, uint64_cast, edge_length, processing_order, devices, sub_matrix_queues,
                   recurrence_points,
                   vertical_frequency_distribution, white_vertical_frequency_distribution,
                   diagonal_length_carryover, vertical_length_carryover,
                   white_vertical_length_carryover,
                   threads_diagonal_frequency_distribution,
                   threads_vertical_frequency_distribution,
                   threads_white_vertical_frequency_distribution,
                   recurrence_matrix, worker, result, history>>

\* result = RQAResult(...); return result
return_result ==
    /\ main.pc = "result"
    /\ result' = [kind |-> "RQAResult"] @@
                 RQAResult(recurrence_points, diagonal_frequency_distribution,
                           vertical_frequency_distribution,
                           white_vertical_frequency_distribution)
    /\ main' = [main EXCEPT !.pc = "done"]
    /\ UNCHANGED <<settings, uint64_cast, edge_length, processing_order, devices, sub_matrix_queues,
                   recurrence_points, diagonal_frequency_distribution,
                   vertical_frequency_distribution, white_vertical_frequency_distribution,
                   diagonal_length_carryover, vertical_length_carryover,
                   white_vertical_length_carryover,
                   threads_diagonal_frequency_distribution,
                   threads_vertical_frequency_distribution,
                   threads_white_vertical_frequency_distribution,
                   recurrence_matrix, worker, history>>

-----------------------------------------------------------------------------
(* run() with one device as a function of its inputs: run_single_device    *)
(* drains the queues one after the other, each in FIFO order.              *)

\* one iteration of process_sub_matrix on the arrays and accumulators of acc
process_one(s, sm, acc) ==
    LET before == device_buffers(s, acc.arrays, sm)
        matrix == materialise(s.similarity_measure, before.vectors_x, before.vectors_y,
                              sm, s.embedding_dimension, s.radius)
        b == diagonal_kernel(matrix, sm, s.theiler_corrector, is_matrix_symmetric(s),
                             get_diagonal_offset(sm), vertical_kernel(matrix, sm, before))
    IN  [arrays |-> read_back(s, acc.arrays, sm, b),
         diagonal |-> array_add(acc.diagonal, b.diagonal_frequency_distribution),
         vertical |-> array_add(acc.vertical, b.vertical_frequency_distribution),
         white |-> array_add(acc.white, b.white_vertical_frequency_distribution)]

RECURSIVE drain_queue(_, _, _, _)
drain_queue(s, queue, i, acc) ==
    IF i > Len(queue) THEN acc
    ELSE drain_queue(s, queue, i + 1, process_one(s, queue[i], acc))

RECURSIVE run_single_device(_, _, _, _)
run_single_device(s, queues, level, acc) ==
    IF level > Len(queues) THEN acc
    ELSE run_single_device(s, queues, level + 1, drain_queue(s, queues[level], 1, acc))

single_device_run(s, e, order) ==
    LET n == number_of_vectors(s)
        acc == run_single_device(s, create_sub_matrices(s, e, order), 1,
                   [arrays |-> [recurrence_points |-> zeros(n),
                                vertical_length_carryover |-> zeros(n),
                                white_vertical_length_carryover |-> zeros(n),
                                diagonal_length_carryover |->
                                    zeros(diagonal_carryover_size(s))],
                    diagonal |-> zeros(n),
                    vertical |-> zeros(n),
                    white |-> zeros(n)])
    IN  [kind |-> "RQAResult"] @@
        RQAResult(acc.arrays.recurrence_points,
                  extent_diagonal_frequency_distribution(s,
                      array_add(close_open_runs(zeros(n),
                                                acc.arrays.diagonal_length_carryover,
                                                diagonal_carryover_size(s)),
                                acc.diagonal)),
                  array_add(close_open_runs(zeros(n),
                                            acc.arrays.vertical_length_carryover, n),
                            acc.vertical),
                  array_add(close_open_runs(zeros(n),
                                            acc.arrays.white_vertical_length_carryover, n),
                            acc.white))

Next ==
    \/ run
    \/ start_level
    \/ join_level
    \/ \E d \in Devices : pull(d)
    \/ \E d \in Devices : queue_empty(d)
    \/ \E d \in Devices : transfer_to_device(d)
    \/ \E d \in Devices : detect_vertical_lines(d)
    \/ \E d \in Devices : detect_diagonal_lines(d)
    \/ \E d \in Devices : transfer_from_device(d)
    \/ \E d \in Devices : update_frequency_distributions(d)
    \/ post_process_length_carryovers
    \/ merge_threads
    \/ extent
    \/ extent_main_diagonal
    \/ return_result

Spec == Init /\ [][Next]_vars

\* the steps of run() and of its workers: every step but the call of run()
Progress ==
    \/ start_level
    \/ join_level
    \/ \E d \in Devices : pull(d)
    \/ \E d \in Devices : queue_empty(d)
    \/ \E d \in Devices : transfer_to_device(d)
    \/ \E d \in Devices : detect_vertical_lines(d)
    \/ \E d \in Devices : detect_diagonal_lines(d)
    \/ \E d \in Devices : transfer_from_device(d)
    \/ \E d \in Devices : update_frequency_distributions(d)
    \/ post_process_length_carryovers
    \/ merge_threads
    \/ extent
    \/ extent_main_diagonal
    \/ return_result

\* runs with one device, and runs with two devices on a series of at most
\* MaxT - 1 vectors
InitFair ==
    /\ Init
    /\ devices >= 1
    /\ NarrowSettings(settings)
    /\ settings.time_delay = 1
    /\ settings.theiler_corrector = 0
    /\ devices > 1 => number_of_vectors(settings) < MaxT

\* every device operation returns and every started thread is scheduled: a
\* step of run() or of a worker that can be taken is taken; whether run() is
\* called is up to the caller
SpecFair == InitFair /\ [][Next]_vars /\ WF_vars(Progress)

-----------------------------------------------------------------------------
(* ColumnByte: the engine of the recurrence plot.  It has the planner, the *)
(* queues and the threads of RowMatBitRec, no carryover, and one global    *)
(* recurrence matrix the sub matrices are inserted in.                      *)

rqa_arrays ==
    <<recurrence_points, diagonal_frequency_distribution,
      vertical_frequency_distribution, white_vertical_frequency_distribution,
      diagonal_length_carryover, vertical_length_carryover,
      white_vertical_length_carryover,
      threads_diagonal_frequency_distribution,
      threads_vertical_frequency_distribution,
      threads_white_vertical_frequency_distribution>>

\* np.zeros((number_of_vectors, number_of_vectors)), indexed [row][column]
empty_recurrence_matrix(n) == [j \in 0 .. n - 1 |-> [i \in 0 .. n - 1 |-> 0]]

\* the history of a run with, per cell, how often a sub matrix was written to it
RPHistory(queues, n) == NoHistory(queues) @@ [written |-> empty_recurrence_matrix(n)]

\* the create_matrix kernel: work item (i, j) writes byte j * dim_x + i
create_matrix_kernel(metric, time_series_x, time_series_y, sm, m, tau, radius) ==
    [k \in 0 .. sm.dim_x * sm.dim_y - 1 |->
        IF contains(radius,
                    get_distance_time_series(metric, time_series_x, time_series_y,
                                             m, tau, k % sm.dim_x, k \div sm.dim_x))
        THEN 1 ELSE 0]

\* cell [j][i] of the global matrix lies in the sub matrix
covers(sm, i, j) ==
    /\ sm.start_x <= i /\ i < sm.start_x + sm.dim_x
    /\ sm.start_y <= j /\ j < sm.start_y + sm.dim_y

\* faulty variant: the block is inserted at the first columns of its rows
insert_sub_matrix_first_columns(matrix, sm, data) ==
    [j \in DOMAIN matrix |->
        [i \in DOMAIN matrix[j] |->
            IF sm.start_y <= j /\ j < sm.start_y + sm.dim_y /\ i < sm.dim_x
            THEN data[(j - sm.start_y) * sm.dim_x + i]
            ELSE matrix[j][i]]]

\* data.reshape(dim_y, dim_x) assigned to the block of the global matrix
insert_sub_matrix(matrix, sm, data) ==
    [j \in DOMAIN matrix |->
        [i \in DOMAIN matrix[j] |->
            IF covers(sm, i, j)
            THEN data[(j - sm.start_y) * sm.dim_x + (i - sm.start_x)]
            ELSE matrix[j][i]]]

\* Baseline.create_matrix of the recurrence plot: the two loops over the vectors
baseline_create_matrix(s) ==
    [index_y \in 0 .. number_of_vectors(s) - 1 |->
        [index_x \in 0 .. number_of_vectors(s) - 1 |->
            IF contains(s.radius,
                        get_distance_time_series(s.similarity_measure, series0(s),
                                                 series0(s), s.embedding_dimension,
                                                 s.time_delay, index_x, index_y))
            THEN 1 ELSE 0]]

\* RecurrencePlotResult.recurrence_matrix_reverse: recurrence_matrix[::-1]
recurrence_matrix_reverse(matrix) ==
    [j \in DOMAIN matrix |-> matrix[Cardinality(DOMAIN matrix) - 1 - j]]

\* the engine of the recurrence plot has no array of the quantification
NoArrays ==
    /\ recurrence_points = <<>>
    /\ diagonal_frequency_distribution = <<>>
    /\ vertical_frequency_distribution = <<>>
    /\ white_vertical_frequency_distribution = <<>>
    /\ diagonal_length_carryover = <<>>
    /\ vertical_length_carryover = <<>>
    /\ white_vertical_length_carryover = <<>>
    /\ threads_diagonal_frequency_distribution = <<>>
    /\ threads_vertical_frequency_distribution = <<>>
    /\ threads_white_vertical_frequency_distribution = <<>>

InitRP ==
    /\ settings \in ValidSettings
    /\ processing_order \in Orders
    /\ devices \in 0 .. MaxDevices
    /\ (devices = 1 /\ processing_order = "Diagonal") \/ NarrowSettings(settings)
    /\ \E e \in EdgeLengths :
          /\ edge_length = clamped_edge_length(e)
          /\ sub_matrix_queues = create_sub_matrices(settings, e, processing_order)
    /\ NoArrays
    /\ recurrence_matrix = empty_recurrence_matrix(number_of_vectors(settings))
    /\ main = [pc |-> "constructed", level |-> 0]
    /\ worker = [d \in Devices |-> IdleWorker]
    /\ result = NoResult
    /\ history = RPHistory(sub_matrix_queues, number_of_vectors(settings))
    /\ uint64_cast = "wraps"

\* RecurrencePlot.reset
RecurrencePlot_reset ==
    recurrence_matrix' = empty_recurrence_matrix(number_of_vectors(settings))

\* ColumnByte.run up to the dispatch on len(self.opencl.devices)
rp_run ==
    /\ main.pc \in {"constructed", "done"}
    /\ history.runs < MaxRuns
    /\ RecurrencePlot_reset
    /\ SubMatrices_reset
    /\ worker' = [d \in Devices |-> IdleWorker]
    /\ IF devices = 0
       THEN /\ main' = [pc |-> "done", level |-> 0]
            /\ result' = ZeroResult
       ELSE /\ main' = [pc |-> "level", level |-> 1]
            /\ result' = NoResult
    /\ history' = [RPHistory(sub_matrix_queues', number_of_vectors(settings)) EXCEPT
                       !.runs = history.runs + 1,
                       !.previous = result]
    /\ UNCHANGED <<settings, uint64_cast, processing_order, devices, rqa_arrays>>

rp_join_level == join("result")

\* the two sub series and the zeroed matrix buffer are written to the device
rp_transfer_to_device(d) ==
    /\ worker[d].pc = "transfer_to_device"
    /\ LET sm == worker[d].sub_matrix IN
       worker' = [worker EXCEPT
                     ![d].pc = "create_matrix",
                     ![d].buffers =
                         [time_series_x |-> get_time_series(settings, sm.start_x, sm.dim_x),
                          time_series_y |-> get_time_series(settings, sm.start_y, sm.dim_y),
                          matrix |-> zeros(sm.dim_x * sm.dim_y)]]
    /\ UNCHANGED <<settings, uint64_cast, edge_length, processing_order, devices, sub_matrix_queues,
                   rqa_arrays, recurrence_matrix, main, result, history>>

\* the create_matrix kernel up to command_queue.finish()
rp_create_matrix(d) ==
    /\ worker[d].pc = "create_matrix"
    /\ LET b == worker[d].buffers IN
       worker' = [worker EXCEPT
                     ![d].pc = "insert",
                     ![d].buffers.matrix =
                         create_matrix_kernel(settings.similarity_measure,
                                              b.time_series_x, b.time_series_y,
                                              worker[d].sub_matrix,
                                              settings.embedding_dimension,
                                              settings.time_delay, settings.radius)]
    /\ UNCHANGED <<settings, uint64_cast, edge_length, processing_order, devices, sub_matrix_queues,
                   rqa_arrays, recurrence_matrix, main, result, history>>

\* the buffer is read and inserted in the global matrix: the end of the iteration
rp_insert_sub_matrix(d) ==
    /\ worker[d].pc = "insert"
    /\ LET sm == worker[d].sub_matrix IN
       /\ recurrence_matrix' =
              insert_sub_matrix(recurrence_matrix, sm, worker[d].buffers.matrix)
       /\ history' = [history EXCEPT
                         !.completed[tile_id(sm)] = @ + 1,
                         !.holding[d] = @ \ {tile_id(sm)},
                         !.written = [j \in DOMAIN @ |->
                                         [i \in DOMAIN @[j] |->
                                             IF covers(sm, i, j) THEN @[j][i] + 1
                                             ELSE @[j][i]]]]
    /\ worker' = [worker EXCEPT ![d] = [IdleWorker EXCEPT !.pc = "get",
                                                          !.queue = worker[d].queue]]
    /\ UNCHANGED <<settings, uint64_cast, edge_length, processing_order, devices, sub_matrix_queues,
                   rqa_arrays, main, result>>

\* result = RecurrencePlotResult(...); return result
rp_return_result ==
    /\ main.pc = "result"
    /\ result' = [kind |-> "RecurrencePlotResult", recurrence_matrix |-> recurrence_matrix]
    /\ main' = [main EXCEPT !.pc = "done"]
    /\ UNCHANGED <<settings, uint64_cast, edge_length, processing_order, devices, sub_matrix_queues,
                   rqa_arrays, recurrence_matrix, worker, history>>

NextRP ==
    \/ rp_run
    \/ start_level
    \/ rp_join_level
    \/ \E d \in Devices : pull(d)
    \/ \E d \in Devices : queue_empty(d)
    \/ \E d \in Devices : rp_transfer_to_device(d)
    \/ \E d \in Devices : rp_create_matrix(d)
    \/ \E d \in Devices : rp_insert_sub_matrix(d)
    \/ rp_return_result

SpecRP == InitRP /\ [][NextRP]_vars

-----------------------------------------------------------------------------
(* result.py: RQAResult.  A float is a quotient [num |-> a, den |-> b] with *)
(* b > 0; an entropy is the set of the <<length, count>> terms it sums and  *)
(* the total the counts are divided by.                                     *)

ratio(a, b) == [num |-> a, den |-> b]

\* np.float(0)
float_zero == ratio(0, 1)

\* .0, and the entropy of lines of one length only: p = 1, ln p = 0
entropy_zero == [terms |-> {}, total |-> 1]

size(a) == Cardinality(DOMAIN a)

\* np.sum(distribution[min_line_length - 1:]), a sum of uint64
RECURSIVE sum_from(_, _, _)
sum_from(distribution, min_line_length, n) ==
    IF n < min_line_length THEN 0
    ELSE (distribution[n - 1] + sum_from(distribution, min_line_length, n - 1))
             % Uint64Modulus

\* faulty variant: the slice keeps the last entry whatever the minimum is
points_from_last(distribution, min_line_length, n) ==
    IF n < 1 THEN 0 ELSE n * distribution[n - 1]

\* np.sum(((np.arange(size) + 1) * distribution)[min_line_length - 1:]); the
\* product of int64 and uint64 arrays is a float64 array
RECURSIVE points_from(_, _, _)
points_from(distribution, min_line_length, n) ==
    IF n < min_line_length THEN 0
    ELSE n * distribution[n - 1] + points_from(distribution, min_line_length, n - 1)

\* "if non_zero.size > 0: longest = np.uint32(np.max(non_zero) + 1)"
longest_line(distribution, before) ==
    LET non_zero == {i \in DOMAIN distribution : distribution[i] # 0}
    IN  IF non_zero = {} THEN before
        ELSE (CHOOSE i \in non_zero : \A k \in non_zero : k <= i) + 1

\* "if non_zero.size > 0: entropy = - np.sum(p * np.log(p))" with
\* p = line_lengths / number_of_lines; else the attribute keeps its value
entropy_of_lines(distribution, min_line_length, number_of_lines, before) ==
    LET non_zero == {i \in DOMAIN distribution :
                        i >= min_line_length - 1 /\ distribution[i] # 0}
        terms == {<<i + 1, distribution[i]>> : i \in non_zero}
    IN  IF non_zero = {} THEN before
        ELSE IF \A term \in terms : term[2] = number_of_lines THEN entropy_zero
        ELSE [terms |-> terms, total |-> number_of_lines]

\* RQAResult.__init__ up to self.update()
RQAResult_attributes(arrays) ==
    arrays @@
    [kind |-> "RQAResult",
     number_of_recurrence_points |-> 0,
     number_of_diagonal_lines |-> 0,
     number_of_diagonal_lines_points |-> 0,
     longest_diagonal_line |-> 0,
     entropy_diagonal_lines |-> entropy_zero,
     number_of_vertical_lines |-> 0,
     number_of_vertical_lines_points |-> 0,
     longest_vertical_line |-> 0,
     entropy_vertical_lines |-> entropy_zero,
     number_of_white_vertical_lines |-> 0,
     number_of_white_vertical_lines_points |-> 0,
     longest_white_vertical_line |-> 0,
     entropy_white_vertical_lines |-> entropy_zero]

\* set_number_of_recurrence_points
set_number_of_recurrence_points(r) ==
    [r EXCEPT !.number_of_recurrence_points =
                  sum_to(r.recurrence_points, size(r.recurrence_points))]

\* the "else: raise RuntimeError" of the four setters of a kind of line
raises_RuntimeError(min_line_length) == ~ (min_line_length > 0)

\* update_diagonal_lines with min_diagonal_line_length > 0
update_diagonal_lines(r, s) ==
    LET f == r.diagonal_frequency_distribution
        lines == sum_from(f, s.min_diagonal_line_length, size(f))
    IN  [r EXCEPT
            !.number_of_diagonal_lines = lines,
            !.number_of_diagonal_lines_points =
                points_from(f, s.min_diagonal_line_length, size(f)),
            !.longest_diagonal_line = longest_line(f, @),
            !.entropy_diagonal_lines =
                entropy_of_lines(f, s.min_diagonal_line_length, lines, @)]

\* update_vertical_lines with min_vertical_line_length > 0
update_vertical_lines(r, s) ==
    LET f == r.vertical_frequency_distribution
        lines == sum_from(f, s.min_vertical_line_length, size(f))
    IN  [r EXCEPT
            !.number_of_vertical_lines = lines,
            !.number_of_vertical_lines_points =
                points_from(f, s.min_vertical_line_length, size(f)),
            !.longest_vertical_line = longest_line(f, @),
            !.entropy_vertical_lines =
                entropy_of_lines(f, s.min_vertical_line_length, lines, @)]

\* update_white_vertical_lines with min_white_vertical_line_length > 0
update_white_vertical_lines(r, s) ==
    LET f == r.white_vertical_frequency_distribution
        lines == sum_from(f, s.min_white_vertical_line_length, size(f))
    IN  [r EXCEPT
            !.number_of_white_vertical_lines = lines,
            !.number_of_white_vertical_lines_points =
                points_from(f, s.min_white_vertical_line_length, size(f)),
            !.longest_white_vertical_line = longest_line(f, @),
            !.entropy_white_vertical_lines =
                entropy_of_lines(f, s.min_white_vertical_line_length, lines, @)]

\* RQAResult.update raises in the first group whose minimum is not above 0
update_raises(s) ==
    \/ raises_RuntimeError(s.min_diagonal_line_length)
    \/ raises_RuntimeError(s.min_vertical_line_length)
    \/ raises_RuntimeError(s.min_white_vertical_line_length)

\* RQAResult.update when no group raises
update(r, s) ==
    update_white_vertical_lines(
        update_vertical_lines(
            update_diagonal_lines(set_number_of_recurrence_points(r), s), s), s)

\* the properties of RQAResult
recurrence_rate(r, s) ==
    IF number_of_vectors(s) > 0
    THEN ratio(r.number_of_recurrence_points, number_of_vectors(s) * number_of_vectors(s))
    ELSE float_zero

average_local_recurrence_rate(r, s) ==
    IF number_of_vectors(s) > 0
    THEN ratio(r.number_of_recurrence_points, number_of_vectors(s))
    ELSE float_zero

determinism(r) ==
    IF r.number_of_recurrence_points > 0
    THEN ratio(r.number_of_diagonal_lines_points, r.number_of_recurrence_points)
    ELSE float_zero

average_diagonal_line(r) ==
    IF r.number_of_diagonal_lines > 0
    THEN ratio(r.number_of_diagonal_lines_points, r.number_of_diagonal_lines)
    ELSE float_zero

divergence(r) ==
    IF r.longest_diagonal_line > 0 THEN ratio(1, r.longest_diagonal_line)
    ELSE float_zero

laminarity(r) ==
    IF r.number_of_recurrence_points > 0
    THEN ratio(r.number_of_vertical_lines_points, r.number_of_recurrence_points)
    ELSE float_zero

trapping_time(r) ==
    IF r.number_of_vertical_lines > 0
    THEN ratio(r.number_of_vertical_lines_points, r.number_of_vertical_lines)
    ELSE float_zero

average_white_vertical_line(r) ==
    IF r.number_of_white_vertical_lines > 0
    THEN ratio(r.number_of_white_vertical_lines_points, r.number_of_white_vertical_lines)
    ELSE float_zero

\* a float compared with 0
positive(q) == q.num > 0

\* the quotient of two floats
quotient(p, q) == ratio(p.num * q.den, p.den * q.num)

ratio_determinism_recurrence_rate(r, s) ==
    IF positive(recurrence_rate(r, s))
    THEN quotient(determinism(r), recurrence_rate(r, s))
    ELSE float_zero

ratio_laminarity_determinism(r) ==
    IF positive(determinism(r)) THEN quotient(laminarity(r), determinism(r))
    ELSE float_zero

-----------------------------------------------------------------------------
(* An analysis from the settings to the measures: a factory is asked for an *)
(* engine, or RowMatBitRec is constructed, run with one device, and the     *)
(* minimum line lengths of the result are set afterwards.                   *)

MaxSetterCalls == 1

\* the edge length RowMatBitRec is constructed with by default
default_edge_length == 10240

MinLengths == 0 .. MaxT

Neighbourhoods == {"FixedRadius", "RadiusCorridor", "FAN", "object"}

Series == {s \in UNION {[1 .. t -> Values] : t \in 1 .. MaxT} : s[1] = 0}

\* Settings.__init__
Settings(time_series, embedding_dimension, time_delay, neighbourhood, radius, theiler_corrector, metric_is_symmetric, min_diagonal_line_length, min_vertical_line_length, min_white_vertical_line_length) ==
    [time_series |-> time_series,
     embedding_dimension |-> embedding_dimension,
     time_delay |-> time_delay,
     similarity_measure |-> "taxicab_metric",
     neighbourhood |-> neighbourhood,
     radius |-> radius,
     theiler_corrector |-> theiler_corrector,
     metric_is_symmetric |-> metric_is_symmetric,
     min_diagonal_line_length |-> min_diagonal_line_length,
     min_vertical_line_length |-> min_vertical_line_length,
     min_white_vertical_line_length |-> min_white_vertical_line_length]

\* the exception a call ended with
Raised(exception) == [kind |-> exception]

AnalysisHistory(e) == [edge_length |-> e, setter_calls |-> 0, raised |-> "none"]

\* what the analysis does not use: the arrays of the engine are inside run()
AnalysisIdle ==
    /\ NoArrays
    /\ recurrence_matrix = <<>>
    /\ devices = 1
    /\ worker = [d \in Devices |-> IdleWorker]
    /\ sub_matrix_queues = <<>>
    /\ result = NoResult

\* the inputs: measures of every radius and minimum line length, embeddings
\* inside and outside the domain, edge lengths up to and above the largest
\* one, the neighbourhoods a factory is asked for, and two series with known
\* matrices: the constant series 1, 1, 1, 1 with m = 2 and radius 0.1, in
\* units of 0.1, and the alternating series 0, 1, 0, 1, 0, 1 with m = 1 and
\* radius 0.5, in units of 0.5
InitAnalysis ==
    /\ AnalysisIdle
    /\ \/ \E series \in Series, radius \in Radii, w \in {0, 1}, e \in {1, MaxT},
             l \in MinLengths, v \in MinLengths, wv \in MinLengths :
             /\ settings = Settings(series, 1, 1, "FixedRadius", radius, w, TRUE, l, v, wv)
             /\ edge_length = e
             /\ processing_order = "Diagonal"
             /\ main = [pc |-> "RowMatBitRec", level |-> 0]
       \/ \E series \in Series, m \in {1, 2}, tau \in {0, 1, 2}, w \in {0, 1},
             symmetric \in BOOLEAN :
             /\ settings = Settings(series, m, tau, "FixedRadius", 1, w, symmetric, 2, 2, 2)
             /\ edge_length = default_edge_length
             /\ processing_order = "Diagonal"
             /\ main = [pc |-> "RowMatBitRec", level |-> 0]
       \/ \E series \in Series,
             e \in (1 .. MaxT + 1) \cup {default_edge_length, max_edge_length,
                                         max_edge_length + 1, 2 * max_edge_length} :
             /\ settings = Settings(series, 1, 1, "FixedRadius", 1, 1, TRUE, 2, 2, 2)
             /\ edge_length = e
             /\ processing_order \in Orders
             /\ main = [pc |-> "RowMatBitRec", level |-> 0]
       \/ \E series \in Series, neighbourhood \in Neighbourhoods :
             /\ settings = Settings(series, 1, 1, neighbourhood, 1, 1, TRUE, 2, 2, 2)
             /\ edge_length = default_edge_length
             /\ processing_order = "Diagonal"
             /\ main \in {[pc |-> "RQAComputation", level |-> 0],
                          [pc |-> "RecurrencePlotComputation", level |-> 0]}
       \/ \E metric \in Metrics, w \in {0, 1}, k \in {1, 2} :
             /\ \/ /\ settings = [Settings(<<10, 10, 10, 10>>, 2, 1, "FixedRadius", 1,
                                            w, TRUE, k, k, k)
                                       EXCEPT !.similarity_measure = metric]
                   /\ edge_length \in (1 .. MaxT) \cup {default_edge_length}
                \/ /\ settings = [Settings(<<0, 2, 0, 2, 0, 2>>, 1, 1, "FixedRadius", 1,
                                            w, TRUE, k, k, k)
                                       EXCEPT !.similarity_measure = metric]
                   /\ edge_length \in (2 .. 2 * MaxT) \cup {default_edge_length}
             /\ processing_order \in Orders
             /\ main = [pc |-> "RowMatBitRec", level |-> 0]
    /\ history = AnalysisHistory(edge_length)
    /\ uint64_cast \in Uint64Casts
    /\ uint64_cast = "saturates" => CastMatters(settings)

\* faulty variant: an engine for every neighbourhood
create_any(neighbourhood, engine) == [kind |-> engine]

\* the isinstance chain of the two factories
create(neighbourhood, engine) ==
    IF neighbourhood = "FixedRadius" THEN [kind |-> engine]
    ELSE IF neighbourhood = "RadiusCorridor"
    THEN Raised("UnsupportedNeighbourhoodException")
    ELSE IF neighbourhood = "FAN"
    THEN Raised("UnsupportedNeighbourhoodException")
    ELSE Raised("UnsupportedNeighbourhoodException")

\* the engines the factories construct
Engines == {"RQAFixedRadius", "RecurrencePlotFixedRadius"}

\* RQAComputation.create
RQAComputation_create ==
    /\ main.pc = "RQAComputation"
    /\ result' = create(settings.neighbourhood, "RQAFixedRadius")
    /\ main' = [main EXCEPT !.pc = IF result'.kind \in Engines THEN "created" ELSE "error"]
    /\ UNCHANGED <<settings, uint64_cast, edge_length, processing_order, devices,
                   sub_matrix_queues, rqa_arrays, recurrence_matrix, worker, history>>

\* RecurrencePlotComputation.create
RecurrencePlotComputation_create ==
    /\ main.pc = "RecurrencePlotComputation"
    /\ result' = create(settings.neighbourhood, "RecurrencePlotFixedRadius")
    /\ main' = [main EXCEPT !.pc = IF result'.kind \in Engines THEN "created" ELSE "error"]
    /\ UNCHANGED <<settings, uint64_cast, edge_length, processing_order, devices,
                   sub_matrix_queues, rqa_arrays, recurrence_matrix, worker, history>>

\* np.zeros(size) raises ValueError for a negative size
zeros_raises(s) == number_of_vectors(s) < 0 \/ diagonal_carryover_size(s) < 0

\* RowMatBitRec.__init__: the arrays of RQA and of the carryover, the planner
RowMatBitRec_init ==
    /\ main.pc = "RowMatBitRec"
    /\ IF zeros_raises(settings)
       THEN /\ result' = Raised("ValueError")
            /\ main' = [main EXCEPT !.pc = "error"]
            /\ UNCHANGED <<edge_length, sub_matrix_queues>>
       ELSE /\ edge_length' = clamped_edge_length(edge_length)
            /\ sub_matrix_queues' =
                   create_sub_matrices(settings, edge_length, processing_order)
            /\ main' = [main EXCEPT !.pc = "constructed"]
            /\ UNCHANGED result
    /\ UNCHANGED <<settings, uint64_cast, processing_order, devices,
                   rqa_arrays, recurrence_matrix, worker, history>>

\* "self.diagonal_frequency_distribution[-1] -= 1" on an array without entries
extent_raises(s) ==
    is_matrix_symmetric(s) /\ s.theiler_corrector = 0 /\ number_of_vectors(s) = 0

\* RowMatBitRec.run with one device, to the RQAResult it returns
RowMatBitRec_run ==
    /\ main.pc = "constructed"
    /\ IF extent_raises(settings)
       THEN /\ result' = Raised("IndexError")
            /\ main' = [main EXCEPT !.pc = "error"]
       ELSE IF update_raises(settings)
       THEN /\ result' = Raised("RuntimeError")
            /\ main' = [main EXCEPT !.pc = "error"]
       ELSE /\ result' = update(RQAResult_attributes(
                                    single_device_run(settings, edge_length,
                                                      processing_order)),
                                settings)
            /\ main' = [main EXCEPT !.pc = "done"]
    /\ UNCHANGED <<settings, uint64_cast, edge_length, processing_order, devices,
                   sub_matrix_queues, rqa_arrays, recurrence_matrix, worker, history>>

\* what the three setters of RQAResult share: the call is counted, and the
\* RuntimeError of the update is seen by the caller
setter_called(raises) ==
    /\ main.pc = "done"
    /\ history.setter_calls < MaxSetterCalls
    /\ history' = [history EXCEPT !.setter_calls = @ + 1,
                                  !.raised = IF raises THEN "RuntimeError" ELSE "none"]
    /\ UNCHANGED <<uint64_cast, edge_length, processing_order, devices, main,
                   sub_matrix_queues, rqa_arrays, recurrence_matrix, worker>>

\* RQAResult.min_diagonal_line_length = value
set_min_diagonal_line_length(value) ==
    /\ setter_called(raises_RuntimeError(value))
    /\ settings' = [settings EXCEPT !.min_diagonal_line_length = value]
    /\ result' = IF raises_RuntimeError(value) THEN result
                 ELSE update_diagonal_lines(result, settings')

\* RQAResult.min_vertical_line_length = value
set_min_vertical_line_length(value) ==
    /\ setter_called(raises_RuntimeError(value))
    /\ settings' = [settings EXCEPT !.min_vertical_line_length = value]
    /\ result' = IF raises_RuntimeError(value) THEN result
                 ELSE update_vertical_lines(result, settings')

\* RQAResult.min_white_vertical_line_length = value
set_min_white_vertical_line_length(value) ==
    /\ setter_called(raises_RuntimeError(value))
    /\ settings' = [settings EXCEPT !.min_white_vertical_line_length = value]
    /\ result' = IF raises_RuntimeError(value) THEN result
                 ELSE update_white_vertical_lines(result, settings')

NextAnalysis ==
    \/ RQAComputation_create
    \/ RecurrencePlotComputation_create
    \/ RowMatBitRec_init
    \/ RowMatBitRec_run
    \/ \E value \in MinLengths : set_min_diagonal_line_length(value)
    \/ \E value \in MinLengths : set_min_vertical_line_length(value)
    \/ \E value \in MinLengths : set_min_white_vertical_line_length(value)

SpecAnalysis == InitAnalysis /\ [][NextAnalysis]_vars

-----------------------------------------------------------------------------
(* RowMatBitRec.run when the processing of a sub matrix raises: only        *)
(* Queue.Empty is caught in process_sub_matrix, so another exception leaves *)
(* the function.                                                            *)

MaxFailures == 1

\* the positions of process_sub_matrix between the get and the next get
Processing == {"transfer_to_device", "vertical", "diagonal",
               "transfer_from_device", "read_vertical_carryover",
               "read_white_vertical_carryover", "read_diagonal_carryover", "update"}

\* an exception leaves process_sub_matrix: with one device it is raised in
\* the thread that called run(), which it leaves as well; with several
\* devices the thread of the device ends, and thread.join() returns
process_sub_matrix_raises(d) ==
    /\ worker[d].pc \in Processing
    /\ Cardinality(history.failed) < MaxFailures
    /\ history' = [history EXCEPT !.failed = @ \cup {tile_id(worker[d].sub_matrix)},
                                  !.holding[d] = {}]
    /\ worker' = [worker EXCEPT ![d] = [IdleWorker EXCEPT !.pc = "exit",
                                                          !.queue = worker[d].queue]]
    /\ IF devices = 1
       THEN /\ main' = [main EXCEPT !.pc = "error"]
            /\ result' = Raised("Exception")
       ELSE UNCHANGED <<main, result>>
    /\ UNCHANGED <<settings, uint64_cast, edge_length, processing_order, devices,
                   sub_matrix_queues, rqa_arrays, recurrence_matrix>>

\* the runs in which a sub matrix may fail: constant series of every length
\* in the Diagonal order, with every edge length and number of devices
InitFailure ==
    /\ Init
    /\ NarrowSettings(settings)
    /\ settings.theiler_corrector = 1
    /\ \A i \in DOMAIN settings.time_series : settings.time_series[i] = 0
    /\ processing_order = "Diagonal"

NextFailure ==
    \/ Next
    \/ \E d \in Devices : process_sub_matrix_raises(d)

SpecFailure == InitFailure /\ [][NextFailure]_vars

-----------------------------------------------------------------------------
(* RowMatBitRec.run with one step of a worker per enqueue_read_buffer call *)
(* into a global array, instead of one step for the transfer from the      *)
(* device.                                                                 *)

\* the positions of a worker at the enqueue_read_buffer calls into the
\* slices of the global arrays, in the order of the calls; the copies of the
\* command queues of two devices are not ordered with each other
ReadSteps ==
    <<"transfer_from_device", "read_vertical_carryover",
      "read_white_vertical_carryover", "read_diagonal_carryover">>

\* one enqueue_read_buffer call into a slice of a global array; the last
\* one is followed by command_queue.finish()
enqueue_read_buffer(d) ==
    /\ \E k \in 1 .. Len(ReadSteps) :
          /\ worker[d].pc = ReadSteps[k]
          /\ LET g == read_back(settings, global_arrays, worker[d].sub_matrix,
                                worker[d].buffers)
             IN  /\ recurrence_points' =
                        IF k = 1 THEN g.recurrence_points ELSE recurrence_points
                 /\ vertical_length_carryover' =
                        IF k = 2 THEN g.vertical_length_carryover
                        ELSE vertical_length_carryover
                 /\ white_vertical_length_carryover' =
                        IF k = 3 THEN g.white_vertical_length_carryover
                        ELSE white_vertical_length_carryover
                 /\ diagonal_length_carryover' =
                        IF k = 4 THEN g.diagonal_length_carryover
                        ELSE diagonal_length_carryover
          /\ worker' = [worker EXCEPT
                            ![d].pc = IF k < Len(ReadSteps) THEN ReadSteps[k + 1]
                                      ELSE "update"]
    /\ UNCHANGED <<settings, uint64_cast, edge_length, processing_order, devices, sub_matrix_queues,
                   diagonal_frequency_distribution,
                   vertical_frequency_distribution, white_vertical_frequency_distribution,
                   threads_diagonal_frequency_distribution,
                   threads_vertical_frequency_distribution,
                   threads_white_vertical_frequency_distribution,
                   recurrence_matrix, main, result, history>>

\* the number of calls of run() in these runs
MaxReadRuns == 1

\* runs with one device, and runs with two devices on a series of at most
\* MaxT - 1 vectors
InitReads ==
    /\ Init
    /\ devices >= 1
    /\ NarrowSettings(settings)
    /\ settings.time_delay = 1
    /\ settings.theiler_corrector = 0
    /\ devices > 1 => number_of_vectors(settings) < MaxT

NextReads ==
    \/ history.runs < MaxReadRuns /\ run
    \/ start_level
    \/ join_level
    \/ \E d \in Devices : pull(d)
    \/ \E d \in Devices : queue_empty(d)
    \/ \E d \in Devices : transfer_to_device(d)
    \/ \E d \in Devices : detect_vertical_lines(d)
    \/ \E d \in Devices : detect_diagonal_lines(d)
    \/ \E d \in Devices : enqueue_read_buffer(d)
    \/ \E d \in Devices : update_frequency_distributions(d)
    \/ post_process_length_carryovers
    \/ merge_threads
    \/ extent
    \/ extent_main_diagonal
    \/ return_result

SpecReads == InitReads /\ [][NextReads]_vars

-----------------------------------------------------------------------------
(* Settings.get_vectors and Settings.get_time_series, called with a start  *)
(* index and a count inside and outside the series.                        *)

\* the start indices and the counts of the calls
ViewIndices == 0 .. MaxT + 1

\* "self.time_series[idx + dim * self.time_delay]" raises IndexError for an
\* index outside -len .. len - 1
get_vectors_raises(s, start, cnt) ==
    \E idx \in start .. start + cnt - 1, dim \in 0 .. s.embedding_dimension - 1 :
        LET index == idx + dim * s.time_delay
        IN  index >= Len(s.time_series) \/ index < - Len(s.time_series)

InitViews ==
    /\ AnalysisIdle
    /\ \E series \in Series, m \in Dimensions, tau \in Delays :
          /\ settings = Settings(series, m, tau, "FixedRadius", 1, 1, TRUE, 2, 2, 2)
          /\ number_of_vectors(settings) >= 1
    /\ edge_length = default_edge_length
    /\ processing_order = "Diagonal"
    /\ main = [pc |-> "Settings", level |-> 0]
    /\ history = [operation |-> "none", start |-> 0, cnt |-> 0]
    /\ uint64_cast = "wraps"

\* what the two calls share
view_called(operation, start, cnt) ==
    /\ main.pc = "Settings"
    /\ main' = [main EXCEPT !.pc = "returned"]
    /\ history' = [operation |-> operation, start |-> start, cnt |-> cnt]
    /\ UNCHANGED <<settings, uint64_cast, edge_length, processing_order, devices,
                   sub_matrix_queues, rqa_arrays, recurrence_matrix, worker>>

\* settings.get_vectors(start, cnt)
call_get_vectors(start, cnt) ==
    /\ view_called("get_vectors", start, cnt)
    /\ result' = IF get_vectors_raises(settings, start, cnt) THEN Raised("IndexError")
                 ELSE [kind |-> "ndarray", data |-> get_vectors(settings, start, cnt)]

\* settings.get_time_series(start, cnt)
call_get_time_series(start, cnt) ==
    /\ view_called("get_time_series", start, cnt)
    /\ result' = [kind |-> "ndarray", data |-> get_time_series(settings, start, cnt)]

NextViews ==
    \/ \E start \in ViewIndices, cnt \in ViewIndices : call_get_vectors(start, cnt)
    \/ \E start \in ViewIndices, cnt \in ViewIndices : call_get_time_series(start, cnt)

SpecViews == InitViews /\ [][NextViews]_vars

-----------------------------------------------------------------------------
(* Properties of the tiled engine *)

\* run() has returned an RQAResult
Done == main.pc = "done" /\ result.kind = "RQAResult"

\* the worker is between the pull of a sub matrix and the end of its iteration
busy(d) ==
    worker[d].pc \in {"transfer_to_device", "vertical", "diagonal",
                      "transfer_from_device", "read_vertical_carryover",
                      "read_white_vertical_carryover", "read_diagonal_carryover",
                      "update"}

\* the order fixes the outcome: waves of the Diagonal order, or one worker
Deterministic == processing_order = "Diagonal" \/ devices = 1

\* the sub matrices the planner put on the queue of level l
wave(l) == {history.planned[l][i] : i \in 1 .. Len(history.planned[l])}

Waves == 1 .. Len(history.planned)

\* two half-open index ranges <<start, end>> have no index in common
disjoint(a, b) == a[2] <= b[1] \/ b[2] <= a[1] \/ a[1] >= a[2] \/ b[1] >= b[2]

column_slices_disjoint(a, b) ==
    /\ disjoint(get_recurrence_points(a), get_recurrence_points(b))
    /\ disjoint(get_vertical_length_carryover(a), get_vertical_length_carryover(b))
    /\ disjoint(get_white_vertical_length_carryover(a),
                get_white_vertical_length_carryover(b))

diagonal_slices_disjoint(a, b) ==
    disjoint(get_diagonal_length_carryover(settings, a),
             get_diagonal_length_carryover(settings, b))

Partitions == number_of_partitions(number_of_vectors(settings), edge_length)

BaselineEquivalence ==
    (Done /\ Deterministic /\ settings.metric_is_symmetric)
        => result = [kind |-> "RQAResult"] @@ baseline_run(settings)

\* C3: under the Diagonal order the run with any number of workers, in any
\* interleaving, returns what the run with one worker returns.
DiagonalInterleavingIndependence ==
    (Done /\ processing_order = "Diagonal")
        => result = single_device_run(settings, edge_length, "Diagonal")

\* two workers have finished a Diagonal run whose middle wave had two sub
\* matrices, and lines were found
DiagonalInterleavingWitness ==
    /\ Done /\ processing_order = "Diagonal" /\ devices = 2
    /\ Len(history.planned) >= 3
    /\ Len(history.planned[2]) >= 2
    /\ \E i \in DOMAIN result.diagonal_frequency_distribution :
          result.diagonal_frequency_distribution[i] > 0

\* C4: while a worker processes a sub matrix of a wave, every sub matrix of
\* every earlier wave has been processed completely and is held by nobody.
WaveBarrier ==
    \A d \in Devices :
        busy(d) =>
            \A l \in Waves :
                l < worker[d].queue =>
                    \A sm \in wave(l) :
                        /\ history.completed[tile_id(sm)] >= 1
                        /\ \A o \in Devices : tile_id(sm) \notin history.holding[o]

\* with two workers, one is processing a sub matrix of the third wave
WaveBarrierWitness ==
    /\ devices = 2
    /\ \E d \in Devices : busy(d) /\ worker[d].queue >= 3

\* C5: a sub matrix is pulled at most once and by one worker, a worker holds
\* at most one sub matrix, and when the queues are drained every planned sub
\* matrix has been pulled once and processed once.
ExactlyOnce ==
    /\ \A id \in DOMAIN history.pulled :
          /\ history.pulled[id] <= 1
          /\ history.completed[id] <= history.pulled[id]
          /\ \A d1, d2 \in Devices :
                (id \in history.holding[d1] /\ id \in history.holding[d2]) => d1 = d2
    /\ \A d \in Devices :
          /\ Cardinality(history.holding[d]) <= 1
          /\ history.holding[d] =
                 IF busy(d) THEN {tile_id(worker[d].sub_matrix)} ELSE {}
    /\ (main.pc \in {"post_process_length_carryovers", "merge", "extent",
                    "extent_main_diagonal", "result"} \/ Done)
          => \A id \in DOMAIN history.pulled :
                history.pulled[id] = 1 /\ history.completed[id] = 1
    /\ DOMAIN history.pulled = (0 .. Partitions - 1) \X (0 .. Partitions - 1)

\* two workers have drained the queues of a grid of at least four sub matrices
ExactlyOnceWitness ==
    /\ Done /\ devices = 2
    /\ Cardinality(DOMAIN history.pulled) >= 4
    /\ \A id \in DOMAIN history.pulled : history.completed[id] = 1

\* the sub matrices a sub matrix takes carryovers from
predecessors(sm) ==
    {<<sm.partition_index_x, sm.partition_index_y - 1>>,
     <<sm.partition_index_x - 1, sm.partition_index_y>>,
     <<sm.partition_index_x - 1, sm.partition_index_y - 1>>}
        \cap DOMAIN history.completed

\* C6: under the Diagonal order, while a worker processes sub matrix (px, py)
\* the sub matrices (px, py - 1), (px - 1, py) and (px - 1, py - 1) have been
\* processed completely and nobody holds them.
DiagonalPredecessorsFinished ==
    processing_order = "Diagonal" =>
        \A d \in Devices :
            busy(d) =>
                \A id \in predecessors(worker[d].sub_matrix) :
                    /\ history.completed[id] >= 1
                    /\ \A o \in Devices : id \notin history.holding[o]

\* a worker of a Diagonal run with two workers processes a sub matrix that has
\* all three predecessors
DiagonalPredecessorsWitness ==
    /\ processing_order = "Diagonal" /\ devices = 2
    /\ \E d \in Devices :
          busy(d) /\ Cardinality(predecessors(worker[d].sub_matrix)) = 3

\* C7: no two sub matrices of one wave of the Diagonal order share an entry
\* of the recurrence points, of the vertical or white vertical carryover, or
\* of the diagonal carryover, in the symmetric and in the asymmetric layout.
DiagonalWaveDisjoint ==
    processing_order = "Diagonal" =>
        \A l \in Waves :
            \A a, b \in wave(l) :
                a # b => column_slices_disjoint(a, b) /\ diagonal_slices_disjoint(a, b)

\* two workers of a Diagonal run process two sub matrices of one wave at the
\* same time, one of them below the main diagonal
DiagonalWaveWitness ==
    /\ processing_order = "Diagonal"
    /\ \E d1, d2 \in Devices :
          /\ d1 # d2 /\ busy(d1) /\ busy(d2)
          /\ worker[d1].queue = worker[d2].queue
          /\ get_diagonal_offset(worker[d1].sub_matrix) = 1

\* C8 as stated: under every order, no two sub matrices of one wave share an
\* entry of the recurrence points or of a carryover array.
AnyOrderWaveDisjoint ==
    \A l \in Waves :
        \A a, b \in wave(l) :
            a # b => column_slices_disjoint(a, b) /\ diagonal_slices_disjoint(a, b)

\* C8: the sub matrices of one wave share no entry of the recurrence points
\* and of the carryover arrays under the Diagonal order; under the Vertical
\* order they share none of the recurrence points and of the vertical
\* carryovers, but with a symmetric matrix and two or more partitions two of
\* them share entries of the diagonal carryover; under the Bulk order with
\* two or more partitions the sub matrices of one column share their entries
\* of the recurrence points and of the vertical carryovers.
WaveDisjointPerOrder ==
    /\ \A l \in Waves :
          \A a, b \in wave(l) :
              a # b =>
                  /\ processing_order \in {"Diagonal", "Vertical"}
                         => column_slices_disjoint(a, b)
                  /\ processing_order = "Diagonal" => diagonal_slices_disjoint(a, b)
    /\ (processing_order = "Vertical" /\ is_matrix_symmetric(settings) /\ Partitions >= 2)
          => \E l \in Waves :
                \E a, b \in wave(l) : a # b /\ ~ diagonal_slices_disjoint(a, b)
    /\ (processing_order = "Bulk" /\ Partitions >= 2)
          => \E a, b \in wave(1) :
                /\ a # b
                /\ get_recurrence_points(a) = get_recurrence_points(b)
                /\ get_vertical_length_carryover(a) = get_vertical_length_carryover(b)

\* two workers of a Vertical run process two sub matrices of one wave at the
\* same time, and the two share entries of the diagonal carryover
WaveDisjointPerOrderWitness ==
    /\ processing_order = "Vertical"
    /\ \E d1, d2 \in Devices :
          /\ d1 # d2 /\ busy(d1) /\ busy(d2)
          /\ worker[d1].queue = worker[d2].queue
          /\ column_slices_disjoint(worker[d1].sub_matrix, worker[d2].sub_matrix)
          /\ ~ diagonal_slices_disjoint(worker[d1].sub_matrix, worker[d2].sub_matrix)

\* run() has just reset the engine
Restarted == main.pc = "level" /\ main.level = 1

-----------------------------------------------------------------------------
(* Properties of the recurrence plot engine *)

\* run() of the recurrence plot engine has returned a RecurrencePlotResult
RPDone == main.pc = "done" /\ result.kind = "RecurrencePlotResult"

\* vectors i and j of the embedded series are neighbours
neighbours(s, i, j) ==
    contains(s.radius,
             get_distance_vectors(s.similarity_measure,
                                  get_vectors(s, 0, number_of_vectors(s)),
                                  get_vectors(s, 0, number_of_vectors(s)),
                                  s.embedding_dimension, i, j))

\* C9: for every edge length, order and interleaving the matrix the engine
\* returns equals the matrix of the Baseline cell by cell, cell [j][i] is 1
\* exactly if vectors i and j are neighbours, every cell was written by one
\* sub matrix, once, and the row-reversed views of the two matrices are equal.
RecurrencePlotEquivalence ==
    RPDone =>
        /\ result.recurrence_matrix = baseline_create_matrix(settings)
        /\ \A j \in DOMAIN result.recurrence_matrix :
              \A i \in DOMAIN result.recurrence_matrix[j] :
                  /\ result.recurrence_matrix[j][i] = 1 <=> neighbours(settings, i, j)
                  /\ result.recurrence_matrix[j][i] \in {0, 1}
                  /\ history.written[j][i] = 1
                  /\ Cardinality({sm \in all_sub_matrices(history.planned) :
                                     covers(sm, i, j)}) = 1
        /\ recurrence_matrix_reverse(result.recurrence_matrix) =
               recurrence_matrix_reverse(baseline_create_matrix(settings))

\* two workers have assembled, from one queue with sub matrices of different
\* sizes, a matrix with recurrent and non-recurrent cells off the main diagonal
RecurrencePlotWitness ==
    /\ RPDone /\ devices = 2 /\ processing_order = "Bulk"
    /\ number_of_vectors(settings) = 3 /\ edge_length = 2
    /\ result.recurrence_matrix[2][0] = 1
    /\ result.recurrence_matrix[1][0] = 0
    /\ recurrence_matrix_reverse(result.recurrence_matrix)[0][0] = 1


-----------------------------------------------------------------------------
(* Conservation properties of the result of the tiled engine *)

\* sum over the lengths l = 1 .. n of l * f[l - 1]
RECURSIVE weighted_to(_, _)
weighted_to(f, n) == IF n = 0 THEN 0 ELSE n * f[n - 1] + weighted_to(f, n - 1)

\* the number of recurrent cells of the matrix M
recurrent_cells(s) ==
    Cardinality({c \in (0 .. number_of_vectors(s) - 1) \X (0 .. number_of_vectors(s) - 1) :
                    neighbours(s, c[1], c[2])})

main_diagonal_recurrent(s) ==
    \A i \in 0 .. number_of_vectors(s) - 1 : neighbours(s, i, i)

MainDiagonalExcludedWitness ==
    /\ Done /\ is_matrix_symmetric(settings)
    /\ main_diagonal_recurrent(settings)
    /\ settings.theiler_corrector >= 1
    /\ number_of_vectors(settings) = 3 /\ edge_length = 2
    /\ result.diagonal_frequency_distribution[2] = 0
    /\ result.diagonal_frequency_distribution[1] > 0


\* the runs of recurrent cells on the diagonals j - i = k of M that the
\* predicate selects, by length: entry l - 1 counts the runs of l cells
diagonal_runs(s, selected(_)) ==
    LET n == number_of_vectors(s)
        cell(k, i) == i >= 0 /\ i < n /\ i + k >= 0 /\ i + k < n /\ neighbours(s, i, i + k)
        lines == {line \in (1 - n .. n - 1) \X (0 .. n - 1) \X (0 .. n - 1) :
                    /\ selected(line[1])
                    /\ line[2] <= line[3]
                    /\ \A i \in line[2] .. line[3] : cell(line[1], i)
                    /\ ~ cell(line[1], line[2] - 1)
                    /\ ~ cell(line[1], line[3] + 1)}
    IN  [l \in 0 .. n - 1 |-> Cardinality({line \in lines : line[3] - line[2] = l})]

\* the run of the same engine on the same input with Theiler corrector 0
without_theiler_corrector ==
    single_device_run([settings EXCEPT !.theiler_corrector = 0],
                      edge_length, processing_order)

\* C22: the Theiler corrector w changes neither recurrence_points nor f_v
\* nor f_w; f_d counts the runs on the diagonals with |i - j| >= w and no
\* other, and with the runs on the diagonals with |i - j| < w added it is
\* the f_d of the run with w = 0.
TheilerOnlyDiagonals ==
    (Done /\ Deterministic) =>
        LET w == settings.theiler_corrector
            kept(k) == fabs(k) >= w
            dropped(k) == fabs(k) < w
        IN
        /\ result.recurrence_points = without_theiler_corrector.recurrence_points
        /\ result.vertical_frequency_distribution =
               without_theiler_corrector.vertical_frequency_distribution
        /\ result.white_vertical_frequency_distribution =
               without_theiler_corrector.white_vertical_frequency_distribution
        /\ w >= 1 => result.diagonal_frequency_distribution =
                         diagonal_runs(settings, kept)
        /\ array_add(result.diagonal_frequency_distribution,
                     diagonal_runs(settings, dropped)) =
               without_theiler_corrector.diagonal_frequency_distribution


\* what the last statement of the extension leaves of the doubled
\* distribution: one less at length N if the Theiler corrector is 0
doubled_once(s, doubled) ==
    [l \in DOMAIN doubled |->
        doubled[l]
            - (IF s.theiler_corrector = 0 /\ l = number_of_vectors(s) - 1 THEN 1 ELSE 0)]

white_vertical_runs(s) ==
    LET n == number_of_vectors(s)
        white(i, j) == j >= 0 /\ j < n /\ ~ neighbours(s, i, j)
        lines == {line \in (0 .. n - 1) \X (0 .. n - 1) \X (0 .. n - 1) :
                    /\ line[2] <= line[3]
                    /\ \A j \in line[2] .. line[3] : white(line[1], j)
                    /\ ~ white(line[1], line[2] - 1)
                    /\ ~ white(line[1], line[3] + 1)}
    IN  [l \in 0 .. n - 1 |-> Cardinality({line \in lines : line[3] - line[2] = l})]

\* C30 as stated: the post-processing of run() adds to f_w, for every
\* column, one run of the length N - starting index - 1 that is left of
\* the white vertical index carryover, if that length is positive.
WhiteIndexCarryoverClosed ==
    [][main.pc = "post_process_length_carryovers" =>
          white_vertical_frequency_distribution' =
              post_process_white_vertical_index_carryover(settings,
                  close_open_runs(white_vertical_frequency_distribution,
                                  white_vertical_length_carryover,
                                  number_of_vectors(settings)),
                  white_vertical_index_carryover(settings),
                  number_of_vectors(settings))]_vars

\* C30, amended: the post-processing of run() adds to f_w, for every column
\* whose white vertical length carryover is positive, one run of that
\* length, and nothing for the white vertical index carryover; in a run
\* whose order fixes the outcome the f_w of the result then counts every
\* run of white cells of every column once.
WhiteLengthCarryoverClosed ==
    [][/\ main.pc = "post_process_length_carryovers" =>
             \A l \in DOMAIN white_vertical_frequency_distribution :
                 white_vertical_frequency_distribution'[l] =
                     white_vertical_frequency_distribution[l]
                       + Cardinality({c \in DOMAIN white_vertical_length_carryover :
                                         white_vertical_length_carryover[c] = l + 1})
       /\ (main.pc = "result" /\ Deterministic) =>
             result'.white_vertical_frequency_distribution = white_vertical_runs(settings)
    ]_vars

\* a result whose matrix has a column with a recurrent cell above two white
\* cells that end in the last row, in two sub matrices
WhiteLengthCarryoverWitness ==
    /\ Done /\ number_of_vectors(settings) = 3 /\ edge_length = 2
    /\ \E i \in 0 .. 2 :
          neighbours(settings, i, 0) /\ ~ neighbours(settings, i, 1)
              /\ ~ neighbours(settings, i, 2)
    /\ result.white_vertical_frequency_distribution[1] > 0


-----------------------------------------------------------------------------
(* Properties of the steps of a run *)

\* run() has created the global distributions and has not returned yet
Running == main.pc \notin {"constructed", "done"}

\* no entry of the array is smaller after the step
grown(before, after) == \A l \in DOMAIN before : after[l] >= before[l]

\* C31 (as stated): from their creation until the result is returned, no
\* entry of the three global frequency distributions decreases in a step of
\* run().
DistributionsNeverDecrease ==
    [][Running =>
          /\ grown(diagonal_frequency_distribution, diagonal_frequency_distribution')
          /\ grown(vertical_frequency_distribution, vertical_frequency_distribution')
          /\ grown(white_vertical_frequency_distribution,
                   white_vertical_frequency_distribution')
    ]_vars

\* C31: from their creation until the result is returned, no entry of the
\* vertical and white vertical distributions decreases, and no entry of the
\* diagonal distribution decreases except the entry of length N in the last
\* statement of the symmetric extension with Theiler corrector 0: that entry
\* has just been doubled and loses one, so it is never below its value
\* before the doubling (an entry of 0 stays 0 or wraps to the largest
\* value).
DistributionsGrow ==
    [][Running =>
          LET last == number_of_vectors(settings) - 1
              subtracting == main.pc = "extent_main_diagonal"
                                 /\ settings.theiler_corrector = 0
          IN
          /\ grown(vertical_frequency_distribution, vertical_frequency_distribution')
          /\ grown(white_vertical_frequency_distribution,
                   white_vertical_frequency_distribution')
          /\ \A l \in DOMAIN diagonal_frequency_distribution :
                \/ diagonal_frequency_distribution'[l] >=
                       diagonal_frequency_distribution[l]
                \/ /\ subtracting /\ l = last
                   /\ diagonal_frequency_distribution'[l] =
                          diagonal_frequency_distribution[l] - 1
                   /\ diagonal_frequency_distribution'[l] >=
                          diagonal_frequency_distribution[l] \div 2
          /\ subtracting =>
                diagonal_frequency_distribution'[last] >=
                    diagonal_frequency_distribution[last] \div 2
    ]_vars

\* the last statement of the extension has taken one from a doubled count
\* of one line of length N, after open runs were closed and workers merged
DistributionsGrowWitness ==
    /\ main.pc = "result" /\ is_matrix_symmetric(settings)
    /\ settings.theiler_corrector = 0
    /\ diagonal_frequency_distribution[number_of_vectors(settings) - 1] = 1
    /\ \E l \in DOMAIN vertical_frequency_distribution :
          vertical_frequency_distribution[l] > 0


\* the steps of one iteration of process_sub_matrix, from the transfer to
\* the device to the update of the worker's accumulators, each ended by
\* command_queue.finish()
TileSteps ==
    <<"transfer_to_device", "vertical", "diagonal", "transfer_from_device", "update">>

\* the accumulators of worker d
threads_frequency_distributions(d) ==
    <<threads_vertical_frequency_distribution[d],
      threads_white_vertical_frequency_distribution[d],
      threads_diagonal_frequency_distribution[d]>>

\* C32: within one sub matrix the steps happen in the order transfer to the
\* device, materialisation of the matrix with the vertical aggregation on
\* it, diagonal aggregation, transfer from the device; a step starts only
\* from the step before it and works on what that step left (the zeroed
\* local distributions and the carryover slices, the materialised matrix,
\* the buffers to read back), and the local distributions are added to the
\* worker's accumulators only after the transfer from the device.
TileStepsInOrder ==
    [][\A d \in Devices :
          LET before == worker[d]
              after == worker'[d]
              sm == before.sub_matrix
              n == number_of_vectors(settings)
              moved == after.pc # before.pc
          IN
          /\ \A k \in 1 .. Len(TileSteps) :
                /\ (moved /\ before.pc = TileSteps[k]) =>
                       after.pc = IF k < Len(TileSteps) THEN TileSteps[k + 1] ELSE "get"
                /\ (moved /\ after.pc = TileSteps[k]) =>
                       before.pc = IF k > 1 THEN TileSteps[k - 1] ELSE "get"
                /\ (moved /\ before.pc = TileSteps[k] /\ k < Len(TileSteps)) =>
                       after.sub_matrix = sm
          /\ (moved /\ before.pc = "transfer_to_device") =>
                /\ after.buffers = device_buffers(settings, global_arrays, sm)
                /\ after.buffers.vertical_frequency_distribution = zeros(n)
                /\ after.buffers.white_vertical_frequency_distribution = zeros(n)
                /\ after.buffers.diagonal_frequency_distribution = zeros(n)
          /\ (moved /\ before.pc = "vertical") =>
                /\ after.matrix =
                       materialise(settings.similarity_measure,
                                   before.buffers.vectors_x, before.buffers.vectors_y,
                                   sm, settings.embedding_dimension, settings.radius)
                /\ after.buffers = vertical_kernel(after.matrix, sm, before.buffers)
                /\ after.buffers.diagonal_frequency_distribution = zeros(n)
                /\ after.buffers.diagonal_carryover = before.buffers.diagonal_carryover
          /\ (moved /\ before.pc = "diagonal") =>
                /\ after.matrix = before.matrix
                /\ after.buffers.recurrence_points = before.buffers.recurrence_points
                /\ after.buffers.vertical_frequency_distribution =
                       before.buffers.vertical_frequency_distribution
                /\ after.buffers.vertical_carryover = before.buffers.vertical_carryover
                /\ after.buffers.white_vertical_carryover =
                       before.buffers.white_vertical_carryover
          /\ (moved /\ before.pc \in {"transfer_to_device", "vertical", "diagonal"}) =>
                UNCHANGED <<recurrence_points, vertical_length_carryover,
                            white_vertical_length_carryover, diagonal_length_carryover>>
          /\ (moved /\ before.pc = "transfer_from_device") =>
                /\ after.buffers = before.buffers
                /\ slice(recurrence_points', get_recurrence_points(sm)[1],
                         get_recurrence_points(sm)[2]) = before.buffers.recurrence_points
                /\ slice(vertical_length_carryover',
                         get_vertical_length_carryover(sm)[1],
                         get_vertical_length_carryover(sm)[2]) =
                       before.buffers.vertical_carryover
                /\ slice(white_vertical_length_carryover',
                         get_white_vertical_length_carryover(sm)[1],
                         get_white_vertical_length_carryover(sm)[2]) =
                       before.buffers.white_vertical_carryover
                /\ slice(diagonal_length_carryover',
                         get_diagonal_length_carryover(settings, sm)[1],
                         get_diagonal_length_carryover(settings, sm)[2]) =
                       before.buffers.diagonal_carryover
          /\ (Running /\ threads_frequency_distributions(d)' #
                             threads_frequency_distributions(d)) =>
                /\ before.pc = "update" /\ moved
                /\ threads_frequency_distributions(d)' =
                       <<array_add(threads_vertical_frequency_distribution[d],
                                   before.buffers.vertical_frequency_distribution),
                         array_add(threads_white_vertical_frequency_distribution[d],
                                   before.buffers.white_vertical_frequency_distribution),
                         array_add(threads_diagonal_frequency_distribution[d],
                                   before.buffers.diagonal_frequency_distribution)>>
    ]_vars

\* one worker has added the lines of a sub matrix to its accumulators and
\* pulls again, while the other worker is between the two kernels
TileStepsInOrderWitness ==
    /\ devices = 2
    /\ \E d1, d2 \in Devices :
          /\ worker[d1].pc = "get" /\ worker[d2].pc = "diagonal"
          /\ \E l \in DOMAIN threads_vertical_frequency_distribution[d1] :
                threads_vertical_frequency_distribution[d1][l] > 0
          /\ \E l \in DOMAIN threads_diagonal_frequency_distribution[d1] :
                threads_diagonal_frequency_distribution[d1][l] > 0
          /\ \E id \in DOMAIN history.completed : history.completed[id] = 1


\* the number of cells of one kind (recurrent or white) that end in row
\* `row` of column `column` of M without a cell of the other kind between
open_run(s, column, row, recurrent) ==
    Cardinality({k \in 0 .. row :
                    \A j \in row - k .. row : neighbours(s, column, j) = recurrent})

\* C33: under the Vertical order, with any number of workers, a sub matrix
\* (px, py) with py > 0 is held by a worker only after the sub matrix
\* (px, py - 1) has been processed completely, and the vertical and white
\* vertical carryovers it finds in the global arrays and transfers to the
\* device are the lengths of the runs that are open at the lower edge of
\* the sub matrix above it.
VerticalOrderCarriesColumns ==
    processing_order = "Vertical" =>
        \A d \in Devices :
            busy(d) =>
                LET sm == worker[d].sub_matrix
                    above == <<sm.partition_index_x, sm.partition_index_y - 1>>
                    column(c) == sm.start_x + c
                IN  /\ sm.partition_index_y > 0 =>
                          /\ above \in DOMAIN history.completed
                          /\ history.completed[above] = 1
                          /\ \A o \in Devices : above \notin history.holding[o]
                    /\ worker[d].pc = "transfer_to_device" =>
                          \A c \in 0 .. sm.dim_x - 1 :
                             /\ vertical_length_carryover[column(c)] =
                                    open_run(settings, column(c), sm.start_y - 1, TRUE)
                             /\ white_vertical_length_carryover[column(c)] =
                                    open_run(settings, column(c), sm.start_y - 1, FALSE)
                    /\ worker[d].pc = "vertical" =>
                          \A c \in 0 .. sm.dim_x - 1 :
                             /\ worker[d].buffers.vertical_carryover[c] =
                                    open_run(settings, column(c), sm.start_y - 1, TRUE)
                             /\ worker[d].buffers.white_vertical_carryover[c] =
                                    open_run(settings, column(c), sm.start_y - 1, FALSE)

\* two workers are in the second wave of a Vertical run and have transferred
\* their sub matrices to the device, one with an open vertical run and one
\* with an open white vertical run
VerticalOrderCarriesColumnsWitness ==
    /\ processing_order = "Vertical" /\ devices = 2
    /\ \A d \in Devices :
          /\ worker[d].pc = "vertical"
          /\ worker[d].sub_matrix.partition_index_y > 0
    /\ \E d1, d2 \in Devices :
          /\ worker[d1].buffers.vertical_carryover[0] > 0
          /\ worker[d2].buffers.white_vertical_carryover[0] > 0


\* C34: with an empty device list run() ends in an exception; it has not
\* returned a value (the integer 0 or a result object) to its caller.
EmptyDeviceListFails ==
    (devices = 0 /\ main.pc = "done") =>
        result.kind \notin {"none", "zero", "RQAResult", "RecurrencePlotResult"}


\* the sub matrices the planner created for the run
planned_sub_matrices ==
    UNION {wave(l) : l \in DOMAIN history.planned}

\* C35: for every sub matrix the slice of the diagonal length carryover
\* lies inside the global array (0 <= start, end <= N for a symmetric
\* matrix, end <= 2N - 1 otherwise) and has dx entries for a symmetric
\* matrix and dx + dy - 1 otherwise, which is also the size of the buffer a
\* worker transfers; for a matrix that is not symmetric the slice is the
\* set of the slots N - 1 + (x - y) of the cells (x, y) of the sub matrix,
\* slot id of the slice being the one of the diagonal the kernel uses it
\* for, so that a diagonal has one slot in all sub matrices it crosses.
DiagonalSliceInside ==
    LET n == number_of_vectors(settings)
        symmetric == is_matrix_symmetric(settings)
        entries(sm) == IF symmetric THEN sm.dim_x ELSE sm.dim_x + sm.dim_y - 1
    IN  /\ size(diagonal_length_carryover) = IF symmetric THEN n ELSE 2 * n - 1
        /\ \A sm \in planned_sub_matrices :
              LET carryover == get_diagonal_length_carryover(settings, sm)
                  carryover_start == carryover[1]
                  carryover_end == carryover[2]
              IN  /\ 0 <= carryover_start
                  /\ carryover_end <= size(diagonal_length_carryover)
                  /\ carryover_end - carryover_start = entries(sm)
                  /\ size(slice(diagonal_length_carryover,
                                carryover_start, carryover_end)) = entries(sm)
                  /\ ~ symmetric =>
                        /\ carryover_start .. carryover_end - 1 =
                               {n - 1 + (x - y) :
                                    x \in sm.start_x .. sm.start_x + sm.dim_x - 1,
                                    y \in sm.start_y .. sm.start_y + sm.dim_y - 1}
                        /\ \A id \in 0 .. entries(sm) - 1 :
                              carryover_start + id =
                                  n - 1 + (sm.start_x - sm.start_y)
                                        + asymmetric_delta(sm, id)
        /\ \A d \in Devices :
              (busy(d) /\ worker[d].pc # "transfer_to_device") =>
                  size(worker[d].buffers.diagonal_carryover) =
                      entries(worker[d].sub_matrix)

\* a worker has transferred the slice of a sub matrix off the main diagonal
\* of a matrix that is not symmetric, with at least two entries, in a
\* grid of at least four sub matrices
DiagonalSliceInsideWitness ==
    /\ ~ is_matrix_symmetric(settings)
    /\ Cardinality(planned_sub_matrices) >= 4
    /\ \E d \in Devices :
          /\ worker[d].pc = "diagonal"
          /\ worker[d].sub_matrix.partition_index_x # worker[d].sub_matrix.partition_index_y
          /\ size(worker[d].buffers.diagonal_carryover) >= 2


\* exactly one of the two open runs of a column has a positive length
one_open(vertical, white) == (vertical > 0) # (white > 0)

\* a sub matrix over column c has been processed completely
aggregated(c) ==
    \E sm \in planned_sub_matrices :
        /\ c \in sm.start_x .. sm.start_x + sm.dim_x - 1
        /\ history.completed[tile_id(sm)] >= 1

\* a worker has read the vertical carryover of column c back and not yet
\* the white vertical carryover
between_reads(c) ==
    \E d \in Devices :
        /\ worker[d].pc = "read_white_vertical_carryover"
        /\ c \in worker[d].sub_matrix.start_x ..
                    worker[d].sub_matrix.start_x + worker[d].sub_matrix.dim_x - 1

\* the carryovers of the Baseline after its two loops, before its open runs
\* are closed
baseline_carryovers(s) ==
    LET n == number_of_vectors(s)
    IN  baseline_loop(s, 0,
            [recurrence_points |-> zeros(n),
             diagonal_frequency_distribution |-> zeros(n),
             vertical_frequency_distribution |-> zeros(n),
             white_vertical_frequency_distribution |-> zeros(n),
             diagonal_length_carryover |-> zeros(n * 2 - 1),
             vertical_length_carryover |-> zeros(n),
             white_vertical_length_carryover |-> zeros(n)])

\* in the buffers of a worker after the vertical kernel, and in the Baseline
\* after its loops, every column has exactly one open run
OneOpenRunInside ==
    /\ \A d \in Devices :
          (busy(d) /\ worker[d].pc \notin {"transfer_to_device", "vertical"}) =>
              \A c \in 0 .. worker[d].sub_matrix.dim_x - 1 :
                  one_open(worker[d].buffers.vertical_carryover[c],
                           worker[d].buffers.white_vertical_carryover[c])
    /\ main.pc = "constructed" =>
          \A c \in 0 .. number_of_vectors(settings) - 1 :
              one_open(baseline_carryovers(settings).vertical_length_carryover[c],
                       baseline_carryovers(settings).white_vertical_length_carryover[c])

distributions(r) ==
    <<r.recurrence_points, r.diagonal_frequency_distribution,
      r.vertical_frequency_distribution, r.white_vertical_frequency_distribution>>

\* C37: with one device, under each of the three orders, a sub matrix is
\* processed only after the sub matrices above it, left of it and above
\* left of it have been processed completely, and the recurrence points and
\* the three distributions run() returns are those of a run of the same
\* input under each of the other orders.
SingleDeviceOrdersAgree ==
    devices = 1 =>
        /\ \A d \in Devices :
              busy(d) =>
                  \A id \in predecessors(worker[d].sub_matrix) :
                      history.completed[id] = 1
        /\ Done =>
              \A order \in Orders :
                  distributions(result) =
                      distributions(single_device_run(settings, edge_length, order))

\* a run of one device under the Bulk order on a grid of at least four sub
\* matrices has returned lines of all three kinds
SingleDeviceOrdersAgreeWitness ==
    /\ devices = 1 /\ processing_order = "Bulk" /\ Done
    /\ Cardinality(planned_sub_matrices) >= 4
    /\ \E l \in DOMAIN result.diagonal_frequency_distribution :
          result.diagonal_frequency_distribution[l] > 0
    /\ \E l \in DOMAIN result.vertical_frequency_distribution :
          result.vertical_frequency_distribution[l] > 0
    /\ \E l \in DOMAIN result.white_vertical_frequency_distribution :
          result.white_vertical_frequency_distribution[l] > 0


\* run() has returned a result, every queue is empty, every sub matrix the
\* planner created has been pulled and processed once, and no worker is left
\* in its loop
Drained ==
    /\ Done
    /\ \A l \in DOMAIN sub_matrix_queues : Len(sub_matrix_queues[l]) = 0
    /\ \A id \in DOMAIN history.completed :
          history.pulled[id] = 1 /\ history.completed[id] = 1
    /\ \A d \in Devices : worker[d].pc = "idle"

\* C39: with at least one device and a step taken whenever one can be
\* taken, a call of run() returns: every worker leaves its loop when its
\* queue is empty, every wave is drained, and at the return all queues are
\* empty and every sub matrix the planner created has been processed.
RunTerminates == (Running /\ devices >= 1) ~> Drained

\* a run of two workers over at least four sub matrices in several waves has
\* returned with all queues drained
RunTerminatesWitness ==
    /\ Drained /\ devices = 2
    /\ Cardinality(planned_sub_matrices) >= 4
    /\ Len(history.planned) >= 2


-----------------------------------------------------------------------------
(* Properties of an analysis *)

\* RowMatBitRec.run has returned an RQAResult with its measures
Analysed == main.pc = "done" /\ result.kind = "RQAResult"

is_zero(q) == q.num = 0

\* every entry of the array is at most bound
below(a, bound) == \A i \in DOMAIN a : a[i] <= bound

\* C14: with radius 0 the result has no recurrence point and no line, its
\* recurrence rate and every measure of its diagonal and vertical lines are
\* 0, and no counter of a frequency distribution is above the N * N cells.
ZeroRadiusAllZero ==
    (Analysed /\ settings.radius = 0 /\ history.setter_calls = 0) =>
        LET cells == number_of_vectors(settings) * number_of_vectors(settings) IN
        /\ below(result.recurrence_points, 0)
        /\ below(result.diagonal_frequency_distribution, 0)
        /\ below(result.vertical_frequency_distribution, 0)
        /\ below(result.white_vertical_frequency_distribution, cells)
        /\ is_zero(recurrence_rate(result, settings))
        /\ is_zero(determinism(result))
        /\ is_zero(average_diagonal_line(result))
        /\ result.longest_diagonal_line = 0
        /\ is_zero(divergence(result))
        /\ result.entropy_diagonal_lines = entropy_zero
        /\ is_zero(laminarity(result))
        /\ is_zero(trapping_time(result))
        /\ result.longest_vertical_line = 0
        /\ result.entropy_vertical_lines = entropy_zero
        /\ is_zero(ratio_determinism_recurrence_rate(result, settings))
        /\ is_zero(ratio_laminarity_determinism(result))

\* the planner has run
Planned == main.pc \in {"constructed", "done"}

\* C15: an edge length above the number of vectors gives one queue with one
\* sub matrix that starts at (0, 0) and has N columns and N rows, and the
\* edge length of the engine is the smaller of the given one and 2^16 - 1.
SingleTileAndClamp ==
    Planned =>
        LET n == number_of_vectors(settings) IN
        /\ edge_length = Min2(history.edge_length, max_edge_length)
        /\ (history.edge_length > n /\ n >= 1) =>
              sub_matrix_queues = << <<SubMatrix(0, 0, n, 0, n, 0)>> >>
        /\ \A sm \in all_sub_matrices(sub_matrix_queues) :
              sm.dim_x <= edge_length /\ sm.dim_y <= edge_length

\* an engine of the Bulk order was constructed with an edge length above
\* 2^16 - 1 for three vectors
SingleTileAndClampWitness ==
    /\ Planned /\ history.edge_length > max_edge_length
    /\ edge_length = max_edge_length
    /\ processing_order = "Bulk"
    /\ number_of_vectors(settings) = 3
    /\ Len(sub_matrix_queues) = 1 /\ Len(sub_matrix_queues[1]) = 1

\* C16: a result with measures has minimum line lengths of at least 1, and
\* no setter call with a smaller value returns without an error.
MinLengthsRejected ==
    /\ Analysed =>
          /\ settings.min_diagonal_line_length >= 1
          /\ settings.min_vertical_line_length >= 1
          /\ settings.min_white_vertical_line_length >= 1
    /\ (main.pc = "error" /\ result.kind = "RuntimeError") => update_raises(settings)

\* C17: an analysis that has returned a result has an embedding dimension,
\* a time delay and a number of vectors of at least 1.
DomainErrorsFatal ==
    Analysed =>
        /\ settings.embedding_dimension >= 1
        /\ settings.time_delay >= 1
        /\ number_of_vectors(settings) >= 1

\* the minimum line lengths the measures of the result were computed for
MinLengthsValid == ~ update_raises(settings)

\* C18: a measure is 0 when the sum it is divided by is 0, and an entropy is
\* 0 when the distribution has no line of at least the minimum length.
ZeroDenominators ==
    (Analysed /\ MinLengthsValid) =>
        LET n == number_of_vectors(settings)
            points == sum_to(result.recurrence_points, n)
            diagonal == sum_from(result.diagonal_frequency_distribution,
                                 settings.min_diagonal_line_length, n)
            vertical == sum_from(result.vertical_frequency_distribution,
                                 settings.min_vertical_line_length, n)
            white == sum_from(result.white_vertical_frequency_distribution,
                              settings.min_white_vertical_line_length, n)
        IN
        /\ n = 0 => is_zero(recurrence_rate(result, settings))
        /\ points = 0 => is_zero(determinism(result)) /\ is_zero(laminarity(result))
        /\ diagonal = 0 => is_zero(average_diagonal_line(result))
        /\ below(result.diagonal_frequency_distribution, 0) => is_zero(divergence(result))
        /\ vertical = 0 => is_zero(trapping_time(result))
        /\ white = 0 => is_zero(average_white_vertical_line(result))
        /\ is_zero(recurrence_rate(result, settings)) =>
              is_zero(ratio_determinism_recurrence_rate(result, settings))
        /\ is_zero(determinism(result)) => is_zero(ratio_laminarity_determinism(result))
        /\ diagonal = 0 => result.entropy_diagonal_lines = entropy_zero
        /\ vertical = 0 => result.entropy_vertical_lines = entropy_zero
        /\ white = 0 => result.entropy_white_vertical_lines = entropy_zero

\* C20: a factory has returned an engine only for a fixed radius, and has
\* raised UnsupportedNeighbourhoodException for every other neighbourhood.
FactoryFixedRadiusOnly ==
    /\ main.pc = "created" =>
          /\ settings.neighbourhood = "FixedRadius"
          /\ result.kind \in Engines
    /\ (settings.neighbourhood # "FixedRadius"
          /\ main.pc \notin {"RQAComputation", "RecurrencePlotComputation"}) =>
          /\ main.pc = "error"
          /\ result = Raised("UnsupportedNeighbourhoodException")

\* the factory of the RQA engines has raised for a neighbourhood of nearest
\* neighbours
FactoryFixedRadiusOnlyWitness ==
    /\ settings.neighbourhood = "FAN"
    /\ main.pc = "error"
    /\ result = Raised("UnsupportedNeighbourhoodException")
    /\ history = AnalysisHistory(default_edge_length)

\* a float in [0, 1]
in_unit_interval(q) == 0 <= q.num /\ q.num <= q.den

\* C21: the result has between 0 and N * N recurrence points, the points on
\* diagonal lines of at least the minimum length and the points on vertical
\* lines of at least the minimum length are each at most the recurrence
\* points, the recurrence rate, the determinism and the laminarity are in
\* [0, 1], and with a determinism above 0 the average diagonal line is at
\* least the minimum diagonal line length.
MeasuresInRange ==
    (Analysed /\ MinLengthsValid) =>
        LET n == number_of_vectors(settings)
            points == sum_to(result.recurrence_points, n)
            diagonal == points_from(result.diagonal_frequency_distribution,
                                    settings.min_diagonal_line_length, n)
            vertical == points_from(result.vertical_frequency_distribution,
                                    settings.min_vertical_line_length, n)
        IN
        /\ 0 <= points /\ points <= n * n
        /\ diagonal <= points
        /\ vertical <= points
        /\ in_unit_interval(recurrence_rate(result, settings))
        /\ in_unit_interval(determinism(result))
        /\ in_unit_interval(laminarity(result))
        /\ positive(determinism(result)) =>
              average_diagonal_line(result).num >=
                  settings.min_diagonal_line_length * average_diagonal_line(result).den

\* the analysis of the constant series 1, 1, 1, 1 with m = 2, tau = 1 and
\* radius 0.1 has returned
ConstantSeriesAnalysed ==
    /\ Analysed
    /\ settings.time_series = <<10, 10, 10, 10>>
    /\ settings.embedding_dimension = 2 /\ settings.time_delay = 1
    /\ settings.radius = 1

\* C23: the constant series 1, 1, 1, 1 with m = 2, tau = 1, radius 0.1 and
\* Theiler corrector 0 has N = 3, every cell of M recurrent, RR = 1,
\* f_d = 2, 2, 1 for the lengths 1, 2, 3, f_v = 0, 0, 3 and f_w all zero.
ConstantSeriesExample ==
    (ConstantSeriesAnalysed /\ settings.theiler_corrector = 0) =>
        /\ number_of_vectors(settings) = 3
        /\ \A i, j \in 0 .. 2 : neighbours(settings, i, j)
        /\ result.recurrence_points = [i \in 0 .. 2 |-> 3]
        /\ recurrence_rate(result, settings).num = recurrence_rate(result, settings).den
        /\ result.diagonal_frequency_distribution = (0 :> 2 @@ 1 :> 2 @@ 2 :> 1)
        /\ result.vertical_frequency_distribution = (0 :> 0 @@ 1 :> 0 @@ 2 :> 3)
        /\ result.white_vertical_frequency_distribution = zeros(3)

\* the result of the constant series for sub matrices of one cell, which
\* every line but those of length 1 runs through
ConstantSeriesWitness ==
    /\ ConstantSeriesAnalysed /\ settings.theiler_corrector = 0
    /\ edge_length = 1 /\ Len(sub_matrix_queues) = 5
    /\ result.diagonal_frequency_distribution[2] = 1
    /\ result.vertical_frequency_distribution[2] = 3

\* the analysis of the alternating series 0, 1, 0, 1, 0, 1 with m = 1,
\* tau = 1 and radius 0.5 has returned
AlternatingSeriesAnalysed ==
    /\ Analysed
    /\ settings.time_series = <<0, 2, 0, 2, 0, 2>>
    /\ settings.embedding_dimension = 1 /\ settings.time_delay = 1
    /\ settings.radius = 1

\* N = 6, M is the checkerboard in which equal values recur, and RR = 0.5
Checkerboard ==
    /\ number_of_vectors(settings) = 6
    /\ \A i, j \in 0 .. 5 : neighbours(settings, i, j) <=> (i - j) % 2 = 0
    /\ 2 * recurrence_rate(result, settings).num = recurrence_rate(result, settings).den

\* C24 as stated: the alternating series 0, 1, 0, 1, 0, 1 with m = 1,
\* tau = 1 and radius 0.5 has N = 6, the checkerboard M, RR = 0.5 and
\* f_v[2] = 6: six vertical runs of length 3.
AlternatingSeriesSixRuns ==
    AlternatingSeriesAnalysed =>
        /\ Checkerboard
        /\ result.vertical_frequency_distribution[2] = 6

\* C24, amended: the alternating series 0, 1, 0, 1, 0, 1 with m = 1,
\* tau = 1 and radius 0.5 has N = 6, the checkerboard M, RR = 0.5 and
\* f_v[0] = 18 with every other entry of f_v zero: each of the six columns
\* has three vertical runs of length 1; the Baseline counts the same.
AlternatingSeriesExample ==
    AlternatingSeriesAnalysed =>
        /\ Checkerboard
        /\ result.vertical_frequency_distribution = [l \in 0 .. 5 |-> IF l = 0 THEN 18 ELSE 0]
        /\ baseline_run(settings).vertical_frequency_distribution =
               result.vertical_frequency_distribution

\* the result of the alternating series for sub matrices of two columns
\* and two rows
AlternatingSeriesWitness ==
    /\ AlternatingSeriesAnalysed
    /\ edge_length = 2 /\ Len(sub_matrix_queues) = 5
    /\ result.vertical_frequency_distribution[0] = 18
    /\ result.vertical_frequency_distribution[2] = 0

\* the analysis of a series with one vector and a radius above 0 has
\* returned, with valid minimum line lengths
OneVectorAnalysed ==
    /\ Analysed /\ MinLengthsValid
    /\ number_of_vectors(settings) = 1
    /\ settings.radius > 0

\* M = [1], RR = 1, and no frequency distribution has an entry for a length
\* of 2 or more
OneCell ==
    /\ neighbours(settings, 0, 0)
    /\ result.recurrence_points = (0 :> 1)
    /\ recurrence_rate(result, settings).num = recurrence_rate(result, settings).den
    /\ size(result.diagonal_frequency_distribution) = 1
    /\ size(result.vertical_frequency_distribution) = 1
    /\ size(result.white_vertical_frequency_distribution) = 1

\* C25 as stated: with N = 1 and a radius above 0, M = [1], RR = 1, no
\* frequency distribution has a run of length 2 or more, and DET and LAM
\* are 0.
OneVectorNoDeterminism ==
    OneVectorAnalysed =>
        /\ OneCell
        /\ is_zero(determinism(result))
        /\ is_zero(laminarity(result))

\* C25, amended: with N = 1 and a radius above 0, M = [1], RR = 1, no
\* frequency distribution has a run of length 2 or more, f_v = [1],
\* f_w = [0] and f_d = [1] with Theiler corrector 0 and [0] otherwise; DET
\* is 0 if the minimum diagonal line length is at least 2 or the Theiler
\* corrector at least 1 and is 1 otherwise; LAM is 0 if the minimum
\* vertical line length is at least 2 and is 1 otherwise.
OneVectorBoundary ==
    OneVectorAnalysed =>
        /\ OneCell
        /\ result.diagonal_frequency_distribution =
               (0 :> IF settings.theiler_corrector = 0 THEN 1 ELSE 0)
        /\ result.vertical_frequency_distribution = (0 :> 1)
        /\ result.white_vertical_frequency_distribution = (0 :> 0)
        /\ determinism(result) =
               IF settings.min_diagonal_line_length >= 2 \/ settings.theiler_corrector >= 1
               THEN float_zero ELSE ratio(1, 1)
        /\ laminarity(result) =
               IF settings.min_vertical_line_length >= 2 THEN float_zero ELSE ratio(1, 1)

\* the result for one vector, Theiler corrector 0 and minimum line lengths
\* of 2: the one recurrent cell is a diagonal line and a vertical line of
\* length 1, below the minimum
OneVectorWitness ==
    /\ OneVectorAnalysed
    /\ settings.theiler_corrector = 0
    /\ settings.min_diagonal_line_length = 2
    /\ settings.min_vertical_line_length = 2
    /\ result.diagonal_frequency_distribution[0] = 1
    /\ is_zero(determinism(result)) /\ is_zero(laminarity(result))

\* the number of sub matrices on the queues, one for each entry
RECURSIVE number_of_sub_matrices(_, _)
number_of_sub_matrices(queues, n) ==
    IF n = 0 THEN 0 ELSE Len(queues[n]) + number_of_sub_matrices(queues, n - 1)

\* C27: for N >= 1 the planner creates P * P sub matrices, P = ceil(N / E),
\* one for each pair of partition indices below P; a sub matrix starts at
\* its partition indices times E and has E columns, or N minus its start
\* in the last partition, and rows likewise; so it has between 1 and E
\* columns and rows, it ends inside the matrix, and every cell of the
\* matrix is in exactly one sub matrix.
TileGeometry ==
    (Planned /\ number_of_vectors(settings) >= 1) =>
        LET n == number_of_vectors(settings)
            e == edge_length
            p == number_of_partitions(n, e)
            tiles == all_sub_matrices(sub_matrix_queues)
        IN
        /\ p * e >= n /\ (p - 1) * e < n
        /\ number_of_sub_matrices(sub_matrix_queues, Len(sub_matrix_queues)) = p * p
        /\ {tile_id(sm) : sm \in tiles} = (0 .. p - 1) \X (0 .. p - 1)
        /\ \A sm \in tiles :
              /\ sm.start_x = sm.partition_index_x * e
              /\ sm.start_y = sm.partition_index_y * e
              /\ sm.dim_x = IF sm.partition_index_x = p - 1 THEN n - sm.start_x ELSE e
              /\ sm.dim_y = IF sm.partition_index_y = p - 1 THEN n - sm.start_y ELSE e
              /\ 1 <= sm.dim_x /\ sm.dim_x <= e
              /\ 1 <= sm.dim_y /\ sm.dim_y <= e
              /\ sm.start_x + sm.dim_x <= n
              /\ sm.start_y + sm.dim_y <= n
        /\ \A i, j \in 0 .. n - 1 : Cardinality({sm \in tiles : covers(sm, i, j)}) = 1

\* six vectors were planned with edge length 4: four sub matrices, the last
\* column and the last row of the grid two cells wide
TileGeometryWitness ==
    /\ Planned /\ number_of_vectors(settings) = 6 /\ edge_length = 4
    /\ number_of_sub_matrices(sub_matrix_queues, Len(sub_matrix_queues)) = 4
    /\ SubMatrix(1, 1, 2, 4, 2, 4) \in all_sub_matrices(sub_matrix_queues)
    /\ SubMatrix(0, 1, 4, 0, 2, 4) \in all_sub_matrices(sub_matrix_queues)

\* C28: every sub matrix is on exactly one queue, the one with index
\* px + py under Diagonal, py under Vertical and 0 under Bulk; there are
\* 2P - 1, P and 1 queues, and none of them is empty.
WaveAssignment ==
    (Planned /\ number_of_vectors(settings) >= 1) =>
        LET p == number_of_partitions(number_of_vectors(settings), edge_length)
            positions == {position \in (DOMAIN sub_matrix_queues) \X (1 .. p * p) :
                             position[2] <= Len(sub_matrix_queues[position[1]])}
            at(position) == sub_matrix_queues[position[1]][position[2]]
        IN
        /\ Len(sub_matrix_queues) = CASE processing_order = "Diagonal" -> 2 * p - 1
                                      [] processing_order = "Vertical" -> p
                                      [] processing_order = "Bulk" -> 1
        /\ \A l \in DOMAIN sub_matrix_queues : Len(sub_matrix_queues[l]) >= 1
        /\ \A l \in DOMAIN sub_matrix_queues : Len(sub_matrix_queues[l]) <= p * p
        /\ \A position \in positions :
              position[1] - 1 =
                  CASE processing_order = "Diagonal" ->
                           at(position).partition_index_x + at(position).partition_index_y
                    [] processing_order = "Vertical" -> at(position).partition_index_y
                    [] processing_order = "Bulk" -> 0
        /\ \A id \in (0 .. p - 1) \X (0 .. p - 1) :
              Cardinality({position \in positions : tile_id(at(position)) = id}) = 1

\* nine sub matrices on the five queues of the Diagonal order
WaveAssignmentWitness ==
    /\ Planned /\ processing_order = "Diagonal"
    /\ number_of_vectors(settings) = 6 /\ edge_length = 2
    /\ Len(sub_matrix_queues) = 5
    /\ Len(sub_matrix_queues[3]) = 3
    /\ Len(sub_matrix_queues[5]) = 1


\* the RQAResult built anew from the arrays of result r with settings s
fresh(r, s) ==
    update(RQAResult_attributes(RQAResult(r.recurrence_points,
                                          r.diagonal_frequency_distribution,
                                          r.vertical_frequency_distribution,
                                          r.white_vertical_frequency_distribution)), s)

\* C38: after the setters of the minimum line lengths have been called with
\* values of at least 1, the numbers of lines and of line points, the
\* longest lines and the entropies of the result are those of an RQAResult
\* built anew from the same distributions with the minimum line lengths now
\* in force, also when a minimum is above the longest line.
SetterMatchesFresh ==
    (/\ Analysed /\ history.setter_calls >= 1
     /\ settings.min_diagonal_line_length >= 1
     /\ settings.min_vertical_line_length >= 1
     /\ settings.min_white_vertical_line_length >= 1) =>
        result = fresh(result, settings)


-----------------------------------------------------------------------------
(* Properties of the views of the embedded series *)

\* a call has returned or raised
Viewed(operation) == main.pc = "returned" /\ history.operation = operation

\* the call asked for vectors beyond the last one
BeyondEnd == history.start + history.cnt > number_of_vectors(settings)

\* C26: get_vectors and get_time_series raise when start + count is above
\* N, and an array that get_vectors returns has count * m entries and one
\* that get_time_series returns has count + offset entries.
ViewsFailBeyondEnd ==
    /\ (Viewed("get_vectors") /\ BeyondEnd) => result.kind = "IndexError"
    /\ (Viewed("get_time_series") /\ BeyondEnd) => result.kind = "IndexError"
    /\ (Viewed("get_vectors") /\ result.kind = "ndarray") =>
          size(result.data) = history.cnt * settings.embedding_dimension
    /\ (Viewed("get_time_series") /\ result.kind = "ndarray") =>
          size(result.data) = history.cnt + offset(settings)


-----------------------------------------------------------------------------
(* Properties of a run in which the processing of a sub matrix fails *)

\* C19: run() returns a result only if the processing of no sub matrix has
\* raised and every sub matrix that was pulled has been processed to its end.
FailureFailsRun ==
    Done =>
        /\ history.failed = {}
        /\ \A id \in DOMAIN history.pulled : history.completed[id] = history.pulled[id]

=============================================================================
